---- MODULE Spec2Model ----
(***************************************************************************)
(* Model of the forecast service (src/forecast/app.py) and its WhatsApp    *)
(* helper (src/forecast/whatsapp_client.py).  Every HTTP handler is one    *)
(* action; the process-wide segmentation globals are the persistent state. *)
(*                                                                         *)
(* Conventions                                                             *)
(*   - intent_score is carried in hundredths (95 stands for 0.95);         *)
(*   - membership degrees are carried in 1/Degree units;                   *)
(*   - the output universe of the fuzzy system is carried in 1/Degree      *)
(*     units too (600 stands for 10.0), so a score is the fraction         *)
(*     num/den of such units;                                              *)
(*   - NaN stands for a missing numeric value (np.nan / NaT / None).       *)
(***************************************************************************)
EXTENDS Integers, Sequences, FiniteSets, TLC

\* ------------------------------------------------------------------------
\* Bounds of the model
\* ------------------------------------------------------------------------

\* Number of calls of initialize_segmentation_models a run may make; every
\* call constructs fresh StandardScaler / KMeans objects, named by its number.
MaxFits == 3

\* ------------------------------------------------------------------------
\* Small helpers
\* ------------------------------------------------------------------------

Min2(a, b) == IF a <= b THEN a ELSE b

Max2(a, b) == IF a >= b THEN a ELSE b

Range(s) == {s[i] : i \in 1..Len(s)}

\* F(value), with value computed once whatever the number of its uses in F
Bind(value, F(_)) == CHOOSE r \in {F(v) : v \in {value}} : TRUE

\* np.nan, pandas NaT, a missing CSV cell
NaN == 0 - 1

\* unit of membership degrees and of the output universe (1.0 = Degree)
Degree == 60

\* ------------------------------------------------------------------------
\* Fuzzy inference system (module level of app.py)
\* ------------------------------------------------------------------------

\* fuzz.trimf(universe, [a, b, c]) evaluated at x, in 1/Degree units
trimf(x, a, b, c) ==
    IF x = b THEN Degree
    ELSE IF a < x /\ x < b THEN (Degree * (x - a)) \div (b - a)
    ELSE IF b < x /\ x < c THEN (Degree * (c - x)) \div (c - b)
    ELSE 0

\* ControlSystemSimulation(clip_to_bounds=True): an input outside the
\* universe is clipped to its ends
ClipToBounds(x, lo, hi) == IF x < lo THEN lo ELSE IF x > hi THEN hi ELSE x

\* Membership degrees of the four antecedents
total_spent_ctrl(term, v) ==
    LET x == ClipToBounds(v, 0, 5000) IN
    CASE term = "low" -> trimf(x, 0, 0, 1500)
      [] term = "medium" -> trimf(x, 1000, 2500, 4000)
      [] term = "high" -> trimf(x, 3500, 5000, 5000)

intent_score_ctrl(term, v) ==
    LET x == ClipToBounds(v, 0, 100) IN
    CASE term = "weak" -> trimf(x, 0, 0, 50)
      [] term = "moderate" -> trimf(x, 30, 60, 90)
      [] term = "strong" -> trimf(x, 70, 100, 100)

touchpoints_count_ctrl(term, v) ==
    LET x == ClipToBounds(v, 0, 20) IN
    CASE term = "low" -> trimf(x, 0, 0, 7)
      [] term = "medium" -> trimf(x, 5, 12, 18)
      [] term = "high" -> trimf(x, 15, 20, 20)

recency_ctrl(term, v) ==
    LET x == ClipToBounds(v, 0, 800) IN
    CASE term = "recent" -> trimf(x, 0, 0, 200)
      [] term = "moderate" -> trimf(x, 150, 400, 650)
      [] term = "distant" -> trimf(x, 600, 800, 800)

\* Grid of the output universe np.arange(0, 11, 1), in 1/Degree units
promotional_segment_universe == {Degree * i : i \in 0..10}

OutputTerms == {"new_customer_nurture", "high_value_engagement", "re_engagement"}

\* Output membership functions at a grid point x (1/Degree units)
promotional_segment_ctrl(term, x) ==
    CASE term = "new_customer_nurture" -> trimf(x, 0, 0, 4 * Degree)
      [] term = "high_value_engagement" -> trimf(x, 3 * Degree, 6 * Degree, 9 * Degree)
      [] term = "re_engagement" -> trimf(x, 7 * Degree, 10 * Degree, 10 * Degree)

\* Firing strength of each rule: antecedents AND-combined with min
RuleFiring(row) ==
    LET ts == row.total_spent
        is == row.intent_score
        tc == row.touchpoints_count
        rc == row.recency
    IN [rule1 |-> Min2(total_spent_ctrl("high", ts),
                       Min2(intent_score_ctrl("strong", is), recency_ctrl("recent", rc))),
        rule2 |-> Min2(total_spent_ctrl("low", ts), recency_ctrl("distant", rc)),
        rule3 |-> Min2(Min2(total_spent_ctrl("low", ts), intent_score_ctrl("weak", is)),
                       Min2(recency_ctrl("recent", rc), touchpoints_count_ctrl("low", tc))),
        rule4 |-> Min2(total_spent_ctrl("medium", ts),
                       Min2(intent_score_ctrl("moderate", is), recency_ctrl("moderate", rc))),
        rule5 |-> Min2(recency_ctrl("distant", rc), touchpoints_count_ctrl("low", tc)),
        rule6 |-> Min2(intent_score_ctrl("strong", is), touchpoints_count_ctrl("high", tc))]

\* The control system: the consequent of each rule
promotional_segmenting_ctrl ==
    [rule1 |-> "high_value_engagement", rule2 |-> "re_engagement",
     rule3 |-> "new_customer_nurture", rule4 |-> "high_value_engagement",
     rule5 |-> "re_engagement", rule6 |-> "high_value_engagement"]

Rules == DOMAIN promotional_segmenting_ctrl

\* the largest element of a set of numbers, 0 for the empty set
SetMax(S) ==
    LET max(T) == IF T = {} THEN 0 ELSE CHOOSE x \in T : \A y \in T : y <= x
    IN Bind(S, max)

\* Cut level of each output term: the firing strengths of its rules are
\* accumulated with max
TermCuts(row) ==
    LET cuts(f) ==
            [t \in OutputTerms |->
                SetMax({f[r] : r \in {q \in Rules : promotional_segmenting_ctrl[q] = t}})]
    IN Bind(RuleFiring(row), cuts)

\* ------------------------------------------------------------------------
\* Defuzzification of the output (skfuzzy, called by compute())
\* ------------------------------------------------------------------------

Abs(n) == IF n < 0 THEN 0 - n ELSE n

\* the points added to the universe for one term: where its membership
\* function crosses the cut level y between two neighbouring grid points
interp_universe(term, y) ==
    LET mf(x) == promotional_segment_ctrl(term, x)
        above(x) == IF y = 0 THEN mf(x) > y ELSE mf(x) >= y
        idx == {x \in promotional_segment_universe \ {10 * Degree} :
                   above(x) # above(x + Degree)}
    IN {x + (Abs(y - mf(x)) * Degree) \div Abs(mf(x + Degree) - mf(x)) : x \in idx}

\* fuzz.interp_membership(universe, mf, x): linear interpolation between the
\* two grid points around x
interp_membership(term, x) ==
    LET x1 == Degree * (x \div Degree)
        m1 == promotional_segment_ctrl(term, x1)
    IN IF x = x1 THEN m1
       ELSE LET m2 == promotional_segment_ctrl(term, x1 + Degree)
            IN IF m2 >= m1 THEN m1 + ((m2 - m1) * (x - x1)) \div Degree
               ELSE m1 - ((m1 - m2) * (x - x1)) \div Degree

\* CrispValueCalculator.find_memberships: the upsampled universe and, at each
\* of its points, the maximum over the terms of the term clipped at its cut
new_universe(cuts) ==
    promotional_segment_universe \cup UNION {interp_universe(t, cuts[t]) : t \in OutputTerms}

output_mf(cuts, x) == SetMax({Min2(cuts[t], interp_membership(t, x)) : t \in OutputTerms})

\* the elements of a set of numbers in ascending order
SortedSeq(S) ==
    LET sorted(T) ==
            [i \in 1..Cardinality(T) |->
                CHOOSE x \in T : Cardinality({y \in T : y < x}) = i - 1]
    IN Bind(S, sorted)

\* The aggregated output: the points of the upsampled universe in ascending
\* order, each with the output membership at it
OutputCurve(cuts) ==
    LET curve(xs) == [i \in 1..Len(xs) |-> [x |-> xs[i], y |-> output_mf(cuts, xs[i])]]
    IN Bind(SortedSeq(new_universe(cuts)), curve)

\* centroid(x, mfx): sums over the segments between neighbouring points of
\* 6 * moment * area and of 6 * area (the factor 6 keeps them integers)
SumMomentArea(curve) ==
    LET sum[i \in 1..Len(curve)] ==
            IF i = 1 THEN 0
            ELSE LET x1 == curve[i - 1].x
                     dx == curve[i].x - curve[i - 1].x
                     y1 == curve[i - 1].y
                     y2 == curve[i].y
                 IN sum[i - 1] + dx * (3 * x1 * (y1 + y2) + dx * (y1 + 2 * y2))
    IN sum[Len(curve)]

SumArea(curve) ==
    LET sum[i \in 1..Len(curve)] ==
            IF i = 1 THEN 0
            ELSE LET dx == curve[i].x - curve[i - 1].x
                     y1 == curve[i - 1].y
                     y2 == curve[i].y
                 IN sum[i - 1] + 3 * dx * (y1 + y2)
    IN sum[Len(curve)]

\* defuzz(ups_universe, output_mf, 'centroid'): an all-zero output has no
\* centroid and compute() raises ValueError; otherwise the score num/den
centroid(curve) ==
    IF \A i \in 1..Len(curve) : curve[i].y = 0
    THEN [raised |-> "ValueError", num |-> 0, den |-> 0]
    ELSE [raised |-> "", num |-> SumMomentArea(curve), den |-> SumArea(curve)]

defuzz(cuts) == Bind(OutputCurve(cuts), centroid)

\* bins [0, 3.0, 5.5, 10]
promotional_bins_low == <<0, 180, 330, 600>>

\* promotional_bins = [0, 4.5, 7.5, 10] in 1/Degree units
promotional_bins == <<0, 270, 450, 600>>

promotional_labels == <<"New Customer Nurture", "High Value Engagement", "Re-engagement">>

\* score >= bound and score < bound for a score num/den (den > 0)
ScoreGeq(sc, b) == sc.num >= b * sc.den

ScoreLt(sc, b) == sc.num < b * sc.den

ScoreLeq(sc, b) == sc.num <= b * sc.den

\* np.nan as a score
NaNScore == [num |-> 0, den |-> 0]

\* the mapping with intervals closed on the right: (0, 4.5], (4.5, 7.5],
\* (7.5, 10]
CategorizeRightClosed(out) ==
    LET sc == [num |-> out.num, den |-> out.den]
    IN IF out.raised = "ValueError" \/ sc.den = 0
       THEN [promotional_segment_score |-> NaNScore,
             promotional_segment_category |-> "Unknown"]
       ELSE [promotional_segment_score |-> sc,
             promotional_segment_category |->
                IF ~ScoreLeq(sc, promotional_bins[1]) /\ ScoreLeq(sc, promotional_bins[2])
                THEN promotional_labels[1]
                ELSE IF ~ScoreLeq(sc, promotional_bins[2]) /\ ScoreLeq(sc, promotional_bins[3])
                THEN promotional_labels[2]
                ELSE IF ~ScoreLeq(sc, promotional_bins[3]) /\ ScoreLeq(sc, promotional_bins[4])
                THEN promotional_labels[3]
                ELSE "Unknown"]

\* the mapping of a score to a category by promotional_bins; a score that
\* is NaN (den = 0) keeps the category 'Unknown' (line 508)
Categorize(out) ==
    LET sc == [num |-> out.num, den |-> out.den]
    IN IF out.raised = "ValueError" \/ sc.den = 0
       THEN [promotional_segment_score |-> NaNScore,
             promotional_segment_category |-> "Unknown"]
       ELSE [promotional_segment_score |-> sc,
             promotional_segment_category |->
                IF ScoreGeq(sc, promotional_bins[1]) /\ ScoreLt(sc, promotional_bins[2])
                THEN promotional_labels[1]
                ELSE IF ScoreGeq(sc, promotional_bins[2]) /\ ScoreLt(sc, promotional_bins[3])
                THEN promotional_labels[2]
                ELSE IF ScoreGeq(sc, promotional_bins[3]) /\ ScoreLeq(sc, promotional_bins[4])
                THEN promotional_labels[3]
                ELSE "Unknown"]

\* compute() on the four inputs of a record: the defuzzified output
compute(row_data) == Bind(TermCuts(row_data), defuzz)

\* apply_fuzzy_segmentation(row_data): (score, category) of one record
apply_fuzzy_segmentation(row_data) == Bind(compute(row_data), Categorize)

\* ------------------------------------------------------------------------
\* Customer batches (the uploaded CSV files)
\* ------------------------------------------------------------------------

\* pd.Timestamp.now(), as a day number
Today == 2000

\* clustering_features
clustering_features == <<"total_spent", "intent_score", "touchpoints_count", "recency">>

\* KMeans(n_clusters=4, ...)
n_clusters == 4

Customer(ts, is, tc, lpd) ==
    [total_spent |-> ts, intent_score |-> is, touchpoints_count |-> tc,
     last_purchase_date |-> lpd]

HighValue == Customer(4800, 95, 18, Today - 10)

Regular == Customer(2500, 60, 12, Today - 600)

Lapsed == Customer(NaN, 50, 0, NaN)

Newcomer == Customer(0, 0, 0, Today)

Idle == Customer(2500, 10, 10, Today - 400)

NoIntent == Customer(4800, NaN, 18, Today - 10)

AllColumns == {"total_spent", "intent_score", "touchpoints_count", "last_purchase_date"}

\* The CSV files a client uploads: the columns of the header and the rows
Batches ==
    {[columns |-> AllColumns, rows |-> <<HighValue, Regular, Lapsed, Newcomer>>],
     [columns |-> AllColumns, rows |-> <<HighValue, Idle>>],
     [columns |-> {"total_spent", "last_purchase_date"},
      rows |-> <<HighValue, Regular, Lapsed, Newcomer>>],
     [columns |-> AllColumns, rows |-> <<HighValue, Regular, NoIntent, Newcomer>>],
     [columns |-> AllColumns \ {"last_purchase_date"},
      rows |-> <<HighValue, Regular, Lapsed, Newcomer>>],
     [columns |-> AllColumns, rows |-> <<>>]}

\* request.files of a segmentation request: no 'file' part, a part with an
\* empty filename, or a CSV file
Uploads ==
    {[part |-> "missing", df |-> [columns |-> {}, rows |-> <<>>]],
     [part |-> "unnamed", df |-> [columns |-> {}, rows |-> <<>>]]}
    \cup {[part |-> "file", df |-> b] : b \in Batches}

\* ------------------------------------------------------------------------
\* Preparation of a batch (shared by initialize and classify)
\* ------------------------------------------------------------------------

\* (now - last_purchase_date).dt.days of one row; NaN for a missing date
RawRecency(row) ==
    IF row.last_purchase_date = NaN THEN NaN ELSE Today - row.last_purchase_date

\* df['recency'].max(), 1000 when every recency is NaN
MaxRecency(rows) ==
    LET known == {RawRecency(rows[i]) : i \in 1..Len(rows)} \ {NaN}
    IN IF known = {} THEN 1000 ELSE SetMax(known)

\* The four clustering features of every row after the fills: total_spent
\* NaN -> 0, recency NaN -> max + 30, an absent intent_score column -> 0.5,
\* an absent touchpoints_count column -> 0
FeatureRows(df) ==
    [i \in 1..Len(df.rows) |->
        LET row == df.rows[i] IN
        [total_spent |-> IF row.total_spent = NaN THEN 0 ELSE row.total_spent,
         intent_score |-> IF "intent_score" \in df.columns THEN row.intent_score ELSE 50,
         touchpoints_count |->
            IF "touchpoints_count" \in df.columns THEN row.touchpoints_count ELSE 0,
         recency |-> IF RawRecency(row) = NaN THEN MaxRecency(df.rows) + 30
                     ELSE RawRecency(row)]]

\* df['last_purchase_date'] and df['total_spent'] raise KeyError when the
\* column is absent
HasRequiredColumns(df) == {"last_purchase_date", "total_spent"} \subseteq df.columns

HasNaN(rows) ==
    \E i \in 1..Len(rows) : \E f \in Range(clustering_features) : rows[i][f] = NaN

\* ------------------------------------------------------------------------
\* The fitted objects (scikit-learn)
\* ------------------------------------------------------------------------

\* the value None of the two globals
NoObject == [obj |-> 0, fitted |-> FALSE, scaler |-> 0, fit_on |-> <<>>]

\* StandardScaler() followed by .fit(rows): the object of call number obj;
\* fit raises on an empty array and leaves the object unfitted
StandardScaler_fit(obj, rows) ==
    [obj |-> obj, fitted |-> Len(rows) > 0, scaler |-> obj,
     fit_on |-> IF Len(rows) > 0 THEN rows ELSE <<>>]

\* KMeans(n_clusters=4, random_state=42) followed by
\* .fit(scaler.transform(rows)): fit raises on NaN and on fewer samples than
\* clusters and leaves the object unfitted
KMeans_fit(obj, scaler, rows) ==
    LET ok == ~HasNaN(rows) /\ Len(rows) >= n_clusters IN
    [obj |-> obj, fitted |-> ok, scaler |-> scaler.obj,
     fit_on |-> IF ok THEN rows ELSE <<>>]

\* initialize_segmentation_models without line 448: the flag is never raised
initialize_without_flag(df_training, call, scaler, kmeans, initialized) ==
    IF ~HasRequiredColumns(df_training)
    THEN [ok |-> FALSE, scaler |-> scaler, kmeans |-> kmeans, initialized |-> initialized]
    ELSE LET rows == FeatureRows(df_training)
             newScaler == StandardScaler_fit(call, rows)
             newKMeans == KMeans_fit(call, newScaler, rows)
         IN IF ~newScaler.fitted
            THEN [ok |-> FALSE, scaler |-> newScaler, kmeans |-> kmeans,
                  initialized |-> initialized]
            ELSE IF ~newKMeans.fitted
            THEN [ok |-> FALSE, scaler |-> newScaler, kmeans |-> newKMeans,
                  initialized |-> initialized]
            ELSE [ok |-> TRUE, scaler |-> newScaler, kmeans |-> newKMeans,
                  initialized |-> initialized]

\* initialize_segmentation_models with line 448 moved before the k-means fit:
\* the flag is raised as soon as the scaler is fitted
initialize_flag_before_kmeans(df_training, call, scaler, kmeans, initialized) ==
    IF ~HasRequiredColumns(df_training)
    THEN [ok |-> FALSE, scaler |-> scaler, kmeans |-> kmeans, initialized |-> initialized]
    ELSE LET rows == FeatureRows(df_training)
             newScaler == StandardScaler_fit(call, rows)
             newKMeans == KMeans_fit(call, newScaler, rows)
         IN IF ~newScaler.fitted
            THEN [ok |-> FALSE, scaler |-> newScaler, kmeans |-> kmeans,
                  initialized |-> initialized]
            ELSE IF ~newKMeans.fitted
            THEN [ok |-> FALSE, scaler |-> newScaler, kmeans |-> newKMeans,
                  initialized |-> TRUE]
            ELSE [ok |-> TRUE, scaler |-> newScaler, kmeans |-> newKMeans,
                  initialized |-> TRUE]

\* initialize_segmentation_models(df_training), as call number call: the new
\* values of the three globals and the returned flag
initialize_segmentation_models(df_training, call, scaler, kmeans, initialized) ==
    IF ~HasRequiredColumns(df_training)
    THEN [ok |-> FALSE, scaler |-> scaler, kmeans |-> kmeans, initialized |-> initialized]
    ELSE LET rows == FeatureRows(df_training)
             newScaler == StandardScaler_fit(call, rows)
             newKMeans == KMeans_fit(call, newScaler, rows)
         IN IF ~newScaler.fitted
            THEN [ok |-> FALSE, scaler |-> newScaler, kmeans |-> kmeans,
                  initialized |-> initialized]
            ELSE IF ~newKMeans.fitted
            THEN [ok |-> FALSE, scaler |-> newScaler, kmeans |-> newKMeans,
                  initialized |-> initialized]
            ELSE [ok |-> TRUE, scaler |-> newScaler, kmeans |-> newKMeans,
                  initialized |-> TRUE]

\* ------------------------------------------------------------------------
\* Phone numbers (format_phone_number and the phonenumbers library)
\* ------------------------------------------------------------------------
\* A string is a sequence of one-character strings.

Digits == {"0", "1", "2", "3", "4", "5", "6", "7", "8", "9"}

IsDigits(str) == Len(str) > 0 /\ \A i \in 1..Len(str) : str[i] \in Digits

StartsWith(str, prefix) ==
    Len(str) >= Len(prefix) /\ SubSeq(str, 1, Len(prefix)) = prefix

\* str.replace(c, '') for every c of chars
RemoveChars(str, chars) ==
    LET keep(c) == c \notin chars IN SelectSeq(str, keep)

\* str(phone).strip().replace(' ', '').replace('-', '').replace('(', '')
\*     .replace(')', '').replace('.', '')
CleanPhone(phone) == RemoveChars(phone, {" ", "-", "(", ")", "."})

\* Country calling code of each region the code names
Regions == {"US", "CA", "IN", "GB", "AU", "DE", "FR", "IT", "ES", "BR", "MX"}

CallingCode ==
    [r \in Regions |->
        CASE r \in {"US", "CA"} -> <<"1">>
          [] r = "IN" -> <<"9", "1">>
          [] r = "GB" -> <<"4", "4">>
          [] r = "AU" -> <<"6", "1">>
          [] r = "DE" -> <<"4", "9">>
          [] r = "FR" -> <<"3", "3">>
          [] r = "IT" -> <<"3", "9">>
          [] r = "ES" -> <<"3", "4">>
          [] r = "BR" -> <<"5", "5">>
          [] r = "MX" -> <<"5", "2">>]

\* The numbering plans: the E.164 numbers phonenumbers.is_valid_number accepts
\* among the candidates the model can build
ValidNumbers ==
    {<<"+", "9", "1", "9", "8", "7", "6", "5", "4", "3", "2", "1", "0">>,
     <<"+", "1", "4", "1", "5", "5", "5", "5", "2", "6", "7", "1">>,
     <<"+", "4", "4", "5", "5", "5", "1", "2", "3", "4", "5", "6", "7">>,
     <<"+", "4", "9", "6", "9", "1", "2", "3", "4", "5", "6", "7", "8">>}

\* phonenumbers.parse(number, region) followed by format_number(.., E164):
\* the E.164 candidate, or <<>> when parse raises NumberParseException.
\* region "" stands for None.  A number with a leading + is parsed by its own
\* calling code; any other number needs a region and gets its calling code,
\* unless it already starts with that code and is a number of the region
\* only without it.
parse(number, region) ==
    IF StartsWith(number, <<"+">>)
    THEN IF IsDigits(Tail(number))
            /\ \E r \in Regions : StartsWith(Tail(number), CallingCode[r])
         THEN number
         ELSE <<>>
    ELSE IF region = "" \/ ~IsDigits(number) \/ Len(number) < 3 THEN <<>>
    ELSE IF /\ StartsWith(number, CallingCode[region])
            /\ (<<"+">> \o CallingCode[region] \o number) \notin ValidNumbers
            /\ (<<"+">> \o number) \in ValidNumbers
    THEN <<"+">> \o number
    ELSE <<"+">> \o CallingCode[region] \o number

\* parse followed by format_number(.., NATIONAL style): the number without '+'
TryParseWithoutPlus(number, region) ==
    LET parsed == parse(number, region)
    IN IF parsed # <<>> /\ parsed \in ValidNumbers THEN Tail(parsed) ELSE <<>>

\* one attempt of format_phone_number: parse, then is_valid_number; <<>> when
\* the attempt yields nothing
TryParse(number, region) ==
    LET parsed == parse(number, region)
    IN IF parsed # <<>> /\ parsed \in ValidNumbers THEN parsed ELSE <<>>

\* the first attempt of a list that yields a number, <<>> if none does
FirstValid(attempts) ==
    LET first(made) ==
            IF \A i \in 1..Len(made) : made[i] = <<>> THEN <<>>
            ELSE made[CHOOSE i \in 1..Len(made) :
                         made[i] # <<>> /\ \A j \in 1..(i - 1) : made[j] = <<>>]
    IN Bind(attempts, first)

\* the list country_codes of format_phone_number
country_codes == <<"IN", "US", "GB", "AU", "DE">>

\* the regions of the last loop of format_phone_number
fallback_regions == <<"IN", "GB", "AU", "CA", "DE", "FR", "IT", "ES", "BR", "MX">>

\* One call of phonenumbers.parse: the string and the region given to it
Attempt(number, region) == [number |-> number, region |-> region]

\* '+' followed by the calling code of a region and the number
WithCallingCode(region, number) == <<"+">> \o CallingCode[region] \o number

\* the attempts of lines 137-144 when the test of line 128 is their else branch
CountryCodeAttemptsElse(p) ==
    IF Len(p) = 10 /\ IsDigits(p) /\ p[1] \notin {"6", "7", "8", "9"}
    THEN [i \in 1..Len(country_codes) |->
             Attempt(WithCallingCode(country_codes[i], p), "")]
    ELSE <<>>

\* for region, code in country_codes (lines 137-144): the loop follows the
\* India attempt of lines 128-135 for every 10-digit number
CountryCodeAttempts(p) ==
    IF Len(p) = 10 /\ IsDigits(p)
    THEN [i \in 1..Len(country_codes) |->
             Attempt(WithCallingCode(country_codes[i], p), "")]
    ELSE <<>>

\* The calls of phonenumbers.parse format_phone_number makes on the cleaned
\* string p when none of them yields a valid number, in the order of the code
Attempts(p) ==
    LET tenDigits == Len(p) = 10 /\ IsDigits(p)
        international == IF StartsWith(p, <<"+">>) THEN <<Attempt(p, "")>> ELSE <<>>
        default == <<Attempt(p, "US")>>
        india == IF tenDigits /\ p[1] \in {"6", "7", "8", "9"}
                 THEN <<Attempt(WithCallingCode("IN", p), "")>>
                 ELSE <<>>
        indiaRegion == IF tenDigits THEN <<Attempt(p, "IN")>> ELSE <<>>
        regions == [i \in 1..Len(fallback_regions) |-> Attempt(p, fallback_regions[i])]
    IN international \o default \o india \o CountryCodeAttempts(p) \o indiaRegion \o regions

\* the result of each attempt of a list
Results(attempts) ==
    [i \in 1..Len(attempts) |-> TryParse(attempts[i].number, attempts[i].region)]

\* the normalization that stops after the default region (lines 100-114)
DefaultRegionOnly(phone) ==
    IF phone = <<>> THEN <<>>
    ELSE FirstValid(Results(SubSeq(Attempts(CleanPhone(phone)), 1,
                       IF StartsWith(CleanPhone(phone), <<"+">>) THEN 2 ELSE 1)))

\* format_phone_number(phone, default_region='US'): the E.164 number, or <<>>
\* for None.  The attempts are made in the order of the code and the first
\* that yields a valid number is returned.
format_phone_number(phone) ==
    IF phone = <<>> THEN <<>>
    ELSE FirstValid(Results(Attempts(CleanPhone(phone))))

\* the attempts format_phone_number makes before it returns: those up to the
\* first that yields a valid number
Tried(phone) ==
    LET upto(made) ==
            IF \A i \in 1..Len(made) : made[i].result = <<>> THEN made
            ELSE SubSeq(made, 1, CHOOSE i \in 1..Len(made) :
                                    /\ made[i].result # <<>>
                                    /\ \A j \in 1..(i - 1) : made[j].result = <<>>)
        run(attempts) ==
            [i \in 1..Len(attempts) |->
                [number |-> attempts[i].number, region |-> attempts[i].region,
                 result |-> TryParse(attempts[i].number, attempts[i].region)]]
        tried(attempts) == Bind(run(attempts), upto)
    IN IF phone = <<>> THEN <<>> ELSE Bind(Attempts(CleanPhone(phone)), tried)

\* ------------------------------------------------------------------------
\* State
\* ------------------------------------------------------------------------

VARIABLES
    segmentation_scaler,       \* global: None or a StandardScaler object
    segmentation_kmeans,       \* global: None or a KMeans object
    segmentation_initialized,  \* global flag
    fits,                      \* calls of initialize_segmentation_models so far
    environ,                   \* which Twilio variables the environment sets
    request,                   \* the request being handled, NoRequest when idle
    response,                  \* the response of its handler, NoResponse before
    calls,                     \* calls the handler made: initialization, Prophet, Twilio
    now,                       \* sample.py: time.time(), in seconds
    session,                   \* sample.py: the session.get calls of the running get()
    frame,                     \* sample.py: the locals of the running get()
    pc,                        \* sample.py: the position of main()
    repos,                     \* sample.py: main's list of repositories
    repo_stats,                \* sample.py: main's list results of records
    metrics,                   \* sample.py: the metrics of the repository in progress
    received,                  \* sample.py: what get() gave the metric just computed
    files,                     \* sample.py: the records written to the output files
    pagination,                \* sample.py: the call of paginate() in progress
    threads                    \* app.py: the requests the worker threads are handling

vars == <<segmentation_scaler, segmentation_kmeans, segmentation_initialized, fits,
          environ, request, response, calls,
          now, session, frame, pc, repos, repo_stats, metrics, received, files,
          pagination, threads>>

\* the state of sample.py
collector == <<now, session, frame, pc, repos, repo_stats, metrics, received, files,
               pagination>>

\* Python's None where a count is expected
None == 0 - 1

\* get() is not running
NoFrame == [state |-> "idle", url |-> "", params |-> "", status_code |-> 0,
            remaining |-> "", reset |-> None, exc |-> "", slept |-> 0]

\* paginate() is not running
NoPagination == [state |-> "idle", items |-> <<>>, requested |-> <<>>, responses |-> <<>>,
                 exc |-> ""]

\* no metric computed yet for the repository in progress
NoMetrics == [commits_count |-> None, prs_merged_count |-> None,
              issues_open_count |-> None, issues_closed_count |-> None]

segmentation == <<segmentation_scaler, segmentation_kmeans, segmentation_initialized, fits>>

NoRequest == [endpoint |-> "", body |-> <<>>]

NoResponse == [endpoint |-> "", status |-> 0, error |-> <<>>, body |-> <<>>]

\* jsonify({"error": msg, ...}), status; the message is a sequence of parts
ErrorResponse(endpoint, status, msg, body) ==
    [endpoint |-> endpoint, status |-> status, error |-> msg, body |-> body]

\* jsonify(body), 200
OkResponse(endpoint, body) ==
    [endpoint |-> endpoint, status |-> 200, error |-> <<>>, body |-> body]

\* a request for endpoint has arrived and its handler has not run yet
Pending(endpoint) == request.endpoint = endpoint /\ response = NoResponse

\* the handler of endpoint has answered the request
Answered(endpoint) == request.endpoint = endpoint /\ response # NoResponse

Environments ==
    [TWILIO_ACCOUNT_SID : BOOLEAN, TWILIO_AUTH_TOKEN : BOOLEAN,
     TWILIO_WHATSAPP_FROM : BOOLEAN]

\* every variable set
Configured ==
    [TWILIO_ACCOUNT_SID |-> TRUE, TWILIO_AUTH_TOKEN |-> TRUE,
     TWILIO_WHATSAPP_FROM |-> TRUE]

Init ==
    /\ segmentation_scaler = NoObject
    /\ segmentation_kmeans = NoObject
    /\ segmentation_initialized = FALSE
    /\ fits = 0
    /\ environ \in Environments
    /\ request = NoRequest
    /\ response = NoResponse
    /\ calls = <<>>
    /\ now = 0
    /\ session = <<>>
    /\ frame = NoFrame
    /\ pc = "main"
    /\ repos = <<>>
    /\ repo_stats = <<>>
    /\ metrics = NoMetrics
    /\ received = <<>>
    /\ files = <<>>
    /\ pagination = NoPagination
    /\ threads = <<>>

\* A client sends one of the requests reqs to the idle server
Receive(reqs) ==
    /\ request = NoRequest
    /\ request' \in reqs
    /\ UNCHANGED <<segmentation, environ, collector, threads, response, calls>>

\* The response goes back to the client; the server is idle again
Respond ==
    /\ response # NoResponse
    /\ request' = NoRequest
    /\ response' = NoResponse
    /\ calls' = <<>>
    /\ UNCHANGED <<segmentation, environ, collector, threads>>

\* ------------------------------------------------------------------------
\* POST /segmentation
\* ------------------------------------------------------------------------

\* the result columns as segment_customers first writes them
WithResultColumns(rows) ==
    [i \in 1..Len(rows) |->
        [total_spent |-> rows[i].total_spent, intent_score |-> rows[i].intent_score,
         touchpoints_count |-> rows[i].touchpoints_count, recency |-> rows[i].recency,
         promotional_segment_score |-> NaNScore,
         promotional_segment_category |-> "Unknown",
         cluster_label |-> 0 - 1]]

\* apply_fuzzy_segmentation is a function of the four inputs only; its
\* values on the complete rows of the batches, computed once
FuzzyInputs ==
    {[f \in Range(clustering_features) |-> r[f]] :
        r \in {q \in UNION {Range(FeatureRows(b)) : b \in Batches} : ~HasNaN(<<q>>)}}

FuzzyResults == [r \in FuzzyInputs |-> apply_fuzzy_segmentation(r)]

\* the loop when a record whose inference fails keeps the score and the
\* category computed for the record before it
ApplyFuzzyCarryOver(records) ==
    LET result(i) == FuzzyResults[[f \in Range(clustering_features) |-> records[i][f]]]
        carried(i) == IF i > 1 /\ result(i).promotional_segment_category = "Unknown"
                      THEN result(i - 1) ELSE result(i)
    IN [i \in 1..Len(records) |->
           [records[i] EXCEPT
               !.promotional_segment_score = carried(i).promotional_segment_score,
               !.promotional_segment_category = carried(i).promotional_segment_category]]

\* the loop over df_processed.iterrows()
ApplyFuzzy(records) ==
    [i \in 1..Len(records) |->
        LET r == FuzzyResults[[f \in Range(clustering_features) |-> records[i][f]]] IN
        [records[i] EXCEPT !.promotional_segment_score = r.promotional_segment_score,
                           !.promotional_segment_category = r.promotional_segment_category]]

\* segmentation_kmeans.predict(features): the label vectors a model with
\* n_clusters clusters can return for n rows
KMeans_predict(kmeans, n) == [1..n -> 0..(n_clusters - 1)]

\* segment_customers without line 564: the placeholder column is returned
AssignNoLabels(records, labels) == records

\* df_processed['cluster_label'] = labels
AssignClusterLabels(records, labels) ==
    [i \in 1..Len(records) |-> [records[i] EXCEPT !.cluster_label = labels[i]]]

\* The body of segment_customers after the lazy initialization: the set of
\* responses it can give for df_input with the current scaler and model
Classify(df_input, scaler, kmeans) ==
    LET rows == FeatureRows(df_input)
        internal == {ErrorResponse("/segmentation", 500,
                                   <<"An internal error occurred: ">>, <<>>)}
    IN IF ~HasRequiredColumns(df_input) THEN internal
       ELSE IF ~scaler.fitted \/ Len(rows) = 0 THEN internal
       ELSE IF ~kmeans.fitted \/ HasNaN(rows) THEN internal
       ELSE LET scored == ApplyFuzzy(WithResultColumns(rows))
            IN {OkResponse("/segmentation", AssignClusterLabels(scored, labels)) :
                   labels \in KMeans_predict(kmeans, Len(rows))}

\* segment_customers without the test of line 544: every request initializes
AlwaysInitialize == TRUE

\* if not segmentation_initialized: the handler initializes the models from
\* the uploaded batch before it classifies
LazyInitialization == ~segmentation_initialized

SegmentCustomers ==
    /\ Pending("/segmentation")
    /\ UNCHANGED <<environ, collector, threads, request>>
    /\ LET up == request.body IN
       IF up.part = "missing"
       THEN /\ response' = ErrorResponse("/segmentation", 400,
                                         <<"No file part in the request">>, <<>>)
            /\ calls' = <<>>
            /\ UNCHANGED segmentation
       ELSE IF up.part = "unnamed"
       THEN /\ response' = ErrorResponse("/segmentation", 400, <<"No selected file">>, <<>>)
            /\ calls' = <<>>
            /\ UNCHANGED segmentation
       ELSE IF LazyInitialization
       THEN LET init == initialize_segmentation_models(up.df, fits + 1,
                            segmentation_scaler, segmentation_kmeans,
                            segmentation_initialized)
            IN /\ segmentation_scaler' = init.scaler
               /\ segmentation_kmeans' = init.kmeans
               /\ segmentation_initialized' = init.initialized
               /\ fits' = fits + 1
               /\ calls' = <<"initialize_segmentation_models">>
               /\ IF ~init.ok
                  THEN response' = ErrorResponse("/segmentation", 500,
                                       <<"Failed to initialize segmentation models">>, <<>>)
                  ELSE response' \in Classify(up.df, init.scaler, init.kmeans)
       ELSE /\ UNCHANGED segmentation
            /\ calls' = <<>>
            /\ response' \in Classify(up.df, segmentation_scaler, segmentation_kmeans)

\* ------------------------------------------------------------------------
\* POST /segmentation/initialize
\* ------------------------------------------------------------------------

InitializeSegmentation ==
    /\ Pending("/segmentation/initialize")
    /\ UNCHANGED <<environ, collector, threads, request>>
    /\ LET up == request.body IN
       IF up.part = "missing"
       THEN /\ response' = ErrorResponse("/segmentation/initialize", 400,
                                         <<"No file part in the request">>, <<>>)
            /\ calls' = <<>>
            /\ UNCHANGED segmentation
       ELSE IF up.part = "unnamed"
       THEN /\ response' = ErrorResponse("/segmentation/initialize", 400,
                                         <<"No selected file">>, <<>>)
            /\ calls' = <<>>
            /\ UNCHANGED segmentation
       ELSE LET init == initialize_segmentation_models(up.df, fits + 1,
                            segmentation_scaler, segmentation_kmeans,
                            segmentation_initialized)
            IN /\ segmentation_scaler' = init.scaler
               /\ segmentation_kmeans' = init.kmeans
               /\ segmentation_initialized' = init.initialized
               /\ fits' = fits + 1
               /\ calls' = <<"initialize_segmentation_models">>
               /\ response' =
                    IF init.ok
                    THEN OkResponse("/segmentation/initialize",
                             [status |-> "success", rows_trained |-> Len(up.df.rows)])
                    ELSE ErrorResponse("/segmentation/initialize", 500,
                                       <<"Failed to initialize models">>, <<>>)

\* The segmentation requests clients send.  A request that makes the handler
\* call initialize_segmentation_models arrives only while fits < MaxFits.
SegmentationRequests ==
    {[endpoint |-> e, body |-> up] :
        e \in {"/segmentation", "/segmentation/initialize"}, up \in Uploads}

NeedsFit(r) ==
    r.body.part = "file"
    /\ (r.endpoint = "/segmentation/initialize" \/ LazyInitialization)

ReceiveSegmentation ==
    Receive({r \in SegmentationRequests : NeedsFit(r) => fits < MaxFits})

SegmentationInit == Init /\ environ = Configured

SegmentationNext ==
    \/ ReceiveSegmentation
    \/ SegmentCustomers
    \/ InitializeSegmentation
    \/ Respond

\* The segmentation endpoints alone
SegmentationSpec == SegmentationInit /\ [][SegmentationNext]_vars

\* ------------------------------------------------------------------------
\* POST /whatsapp/send
\* ------------------------------------------------------------------------

\* Number of recipients (and of users) of one request
MaxRecipients == 3

\* twilio_client: a Client when both credentials were set at start-up
twilio_client == environ.TWILIO_ACCOUNT_SID /\ environ.TWILIO_AUTH_TOKEN

\* The phone strings clients submit
E164Phone == <<"+", "9", "1", "9", "8", "7", "6", "5", "4", "3", "2", "1", "0">>

BarePhone == <<"9", "8", "7", "6", "5", " ", "4", "3", "2", "1", "0">>

BadPhone == <<"2", "3", "4", "5", "6">>

\* a recipient: phone and message, "" and <<>> for an absent one
Recipients == [phone : {E164Phone, BarePhone, BadPhone, <<>>}, message : {"Hello", ""}]

\* every sequence over S of at most n elements
SeqUpTo(S, n) == UNION {[1..k -> S] : k \in 0..n}

\* twilio_client.messages.create per recipient: the message is queued or the
\* call raises
TwilioOutcomes == {"queued", "TwilioRestException"}

\* f"whatsapp:{formatted_phone}"
WhatsappAddress(number) == <<"whatsapp:">> \o number

\* An error text of a results entry: the literal text of the f-string and
\* the phone strings interpolated into it
Text(text, args) == [text |-> text, args |-> args]

\* the loop body with the error text of line 694 without the phone
ProcessRecipientGenericError(recipient, outcome) ==
    IF recipient.phone = <<>> \/ recipient.message = ""
    THEN [phone |-> recipient.phone, customerName |-> "Customer", success |-> FALSE,
          error |-> Text("Missing phone or message", <<>>)]
    ELSE IF format_phone_number(recipient.phone) = <<>>
    THEN [phone |-> recipient.phone, customerName |-> "Customer", success |-> FALSE,
          error |-> Text("Invalid phone number format", <<>>)]
    ELSE IF outcome = "queued"
    THEN [phone |-> recipient.phone,
          formattedPhone |-> format_phone_number(recipient.phone),
          customerName |-> "Customer", success |-> TRUE,
          messageId |-> "SM", status |-> "queued"]
    ELSE [phone |-> recipient.phone, customerName |-> "Customer", success |-> FALSE,
          error |-> Text("Unable to create record", <<>>), errorType |-> outcome]

\* One pass of the loop body for a recipient, with the outcome of the
\* provider call should it be made: the entry appended to results
ProcessRecipient(recipient, outcome) ==
    LET phone == recipient.phone
        entry(formatted_phone) ==
            IF formatted_phone = <<>>
            THEN [phone |-> phone, customerName |-> "Customer", success |-> FALSE,
                  error |-> Text("Invalid phone number format: ", <<phone>>)]
            ELSE IF outcome = "queued"
            THEN [phone |-> phone, formattedPhone |-> formatted_phone,
                  customerName |-> "Customer", success |-> TRUE,
                  messageId |-> "SM", status |-> "queued"]
            ELSE [phone |-> phone, customerName |-> "Customer", success |-> FALSE,
                  error |-> Text("Unable to create record", <<>>), errorType |-> outcome]
    IN IF phone = <<>> \/ recipient.message = ""
       THEN [phone |-> phone, customerName |-> "Customer", success |-> FALSE,
             error |-> Text("Missing phone or message", <<>>)]
       ELSE Bind(format_phone_number(phone), entry)

\* the pass that calls twilio_client.messages.create a second time (a retry)
ProviderCallTwice(recipient) ==
    LET call(formatted_phone) ==
            IF formatted_phone = <<>> THEN <<>>
            ELSE <<[api |-> "messages.create", to |-> WhatsappAddress(formatted_phone),
                    body |-> recipient.message],
                   [api |-> "messages.create", to |-> WhatsappAddress(formatted_phone),
                    body |-> recipient.message]>>
    IN IF recipient.phone = <<>> \/ recipient.message = "" THEN <<>>
       ELSE Bind(format_phone_number(recipient.phone), call)

\* the call of twilio_client.messages.create the pass makes, if it makes one
ProviderCall(recipient) ==
    LET call(formatted_phone) ==
            IF formatted_phone = <<>> THEN <<>>
            ELSE <<[api |-> "messages.create", to |-> WhatsappAddress(formatted_phone),
                    body |-> recipient.message]>>
    IN IF recipient.phone = <<>> \/ recipient.message = "" THEN <<>>
       ELSE Bind(format_phone_number(recipient.phone), call)

\* the loop leaving at the first recipient that fails
ProcessRecipientsAborting(recipients, outcomes) ==
    LET results[i \in 0..Len(recipients)] ==
            IF i = 0 THEN <<>>
            ELSE IF \E k \in 1..Len(results[i - 1]) : ~results[i - 1][k].success
            THEN results[i - 1]
            ELSE Append(results[i - 1], ProcessRecipient(recipients[i], outcomes[i]))
    IN results[Len(recipients)]

\* for idx, recipient in enumerate(recipients): the results list
ProcessRecipients(recipients, outcomes) ==
    LET results[i \in 0..Len(recipients)] ==
            IF i = 0 THEN <<>>
            ELSE Append(results[i - 1], ProcessRecipient(recipients[i], outcomes[i]))
    IN results[Len(recipients)]

\* the provider calls of the loop, in order
ProviderCalls(recipients) ==
    LET made[i \in 0..Len(recipients)] ==
            IF i = 0 THEN <<>> ELSE made[i - 1] \o ProviderCall(recipients[i])
    IN made[Len(recipients)]

\* success_count = sum(1 for r in results if r.get('success'))
success_count(results) == Cardinality({i \in 1..Len(results) : results[i].success})

\* the final jsonify of send_whatsapp
DispatchReport(recipients, results) ==
    [success |-> TRUE, total |-> Len(recipients), sent |-> success_count(results),
     failed |-> Len(recipients) - success_count(results), results |-> results]

SendWhatsapp ==
    /\ Pending("/whatsapp/send")
    /\ UNCHANGED <<segmentation, environ, collector, threads, request>>
    /\ LET recipients == request.body.recipients IN
       IF ~request.body.json
       THEN /\ response' = ErrorResponse("/whatsapp/send", 400, <<"No data provided">>, <<>>)
            /\ calls' = <<>>
       ELSE IF recipients = <<>>
       THEN /\ response' = ErrorResponse("/whatsapp/send", 400,
                                         <<"No recipients provided">>, <<>>)
            /\ calls' = <<>>
       ELSE IF ~twilio_client
       THEN /\ response' = ErrorResponse("/whatsapp/send", 500,
                                         <<"Twilio is not configured.">>, <<>>)
            /\ calls' = <<>>
       ELSE IF ~environ.TWILIO_WHATSAPP_FROM
       THEN /\ response' = ErrorResponse("/whatsapp/send", 500,
                                         <<"TWILIO_WHATSAPP_FROM is not configured.">>, <<>>)
            /\ calls' = <<>>
       ELSE \E outcomes \in [1..Len(recipients) -> TwilioOutcomes] :
               /\ response' = OkResponse("/whatsapp/send",
                                  DispatchReport(recipients,
                                                 ProcessRecipients(recipients, outcomes)))
               /\ calls' = ProviderCalls(recipients)

\* the bodies of the /whatsapp/send requests clients send: no JSON body, or
\* a JSON body with a list of recipients
WhatsappSendRequests ==
    {[endpoint |-> "/whatsapp/send", body |-> [json |-> FALSE, recipients |-> <<>>]]}
    \cup {[endpoint |-> "/whatsapp/send", body |-> [json |-> TRUE, recipients |-> rs]] :
             rs \in SeqUpTo(Recipients, MaxRecipients)}

ReceiveWhatsappSend == Receive(WhatsappSendRequests)

\* ------------------------------------------------------------------------
\* POST /send-whatsapp
\* ------------------------------------------------------------------------

\* whatsapp_client.send_whatsapp(users, body, from_number=None)
whatsapp_client_send_whatsapp ==
    [name |-> "whatsapp_client.send_whatsapp", min_args |-> 2, max_args |-> 3]

\* the view function of POST /whatsapp/send: def send_whatsapp()
app_send_whatsapp == [name |-> "app.send_whatsapp", min_args |-> 0, max_args |-> 0]

\* The statements of app.py that bind the module global send_whatsapp, in
\* the order the import of the module executes them
send_whatsapp_bindings ==
    <<[line |-> 17, value |-> whatsapp_client_send_whatsapp],
      [line |-> 617, value |-> app_send_whatsapp]>>

\* the object the global send_whatsapp names when a request is handled
send_whatsapp == send_whatsapp_bindings[Len(send_whatsapp_bindings)].value

\* number.startswith('whatsapp:')
HasWhatsappPrefix(number) == number # <<>> /\ number[1] = "whatsapp:"

_ensure_whatsapp_prefix(number) ==
    IF number = <<>> THEN number
    ELSE IF HasWhatsappPrefix(number) THEN number
    ELSE WhatsappAddress(number)

\* the positions of users whose send had the given outcome, in order
UsersWith(outcomes, outcome) ==
    SelectSeq([i \in 1..Len(outcomes) |-> i], LAMBDA i : outcomes[i] = outcome)

\* the body of whatsapp_client.send_whatsapp for one outcome of each call of
\* client.messages.create
Dispatch(users, outcomes) ==
    LET sent == UsersWith(outcomes, "queued")
        failed == UsersWith(outcomes, "TwilioRestException")
    IN  [raised |-> "",
         sent   |-> [k \in 1..Len(sent) |->
                        [to |-> _ensure_whatsapp_prefix(users[sent[k]]), sid |-> "SM"]],
         failed |-> [k \in 1..Len(failed) |->
                        [to |-> _ensure_whatsapp_prefix(users[failed[k]]),
                         error |-> "Unable to create record"]]]

\* the calls of client.messages.create the dispatcher makes
DispatchCalls(users, body) ==
    [i \in 1..Len(users) |->
        [api |-> "messages.create", to |-> _ensure_whatsapp_prefix(users[i]),
         body |-> body]]

Raised(exception) == [raised |-> exception, sent |-> <<>>, failed |-> <<>>]

\* The outcomes of calling callee with nargs positional arguments: a callee
\* that does not take them raises TypeError before its body runs
CallSendWhatsapp(callee, nargs, users, body) ==
    IF nargs < callee.min_args \/ nargs > callee.max_args
    THEN {[result |-> Raised("TypeError"), calls |-> <<>>]}
    ELSE IF callee.name = "whatsapp_client.send_whatsapp"
    THEN IF ~(environ.TWILIO_ACCOUNT_SID /\ environ.TWILIO_AUTH_TOKEN)
         THEN {[result |-> Raised("RuntimeError"), calls |-> <<>>]}
         ELSE {[result |-> Dispatch(users, outcomes), calls |-> DispatchCalls(users, body)] :
                  outcomes \in [1..Len(users) -> TwilioOutcomes]}
    ELSE {[result |-> Raised("RuntimeError"), calls |-> <<>>]}

SendWhatsappRoute ==
    /\ Pending("/send-whatsapp")
    /\ UNCHANGED <<segmentation, environ, collector, threads, request>>
    /\ LET users == request.body.users
           message == request.body.message
       IN
       IF users = <<>>
       THEN /\ response' = ErrorResponse("/send-whatsapp", 400,
                              <<"'users' must be a non-empty list of phone numbers">>, <<>>)
            /\ calls' = <<>>
       ELSE IF message = ""
       THEN /\ response' = ErrorResponse("/send-whatsapp", 400,
                                         <<"'message' is required">>, <<>>)
            /\ calls' = <<>>
       ELSE \E outcome \in CallSendWhatsapp(send_whatsapp, 3, users, message) :
               IF outcome.result.raised # ""
               THEN /\ response' = ErrorResponse("/send-whatsapp", 500,
                                                 <<outcome.result.raised>>, <<>>)
                    /\ calls' = outcome.calls
               ELSE /\ response' = OkResponse("/send-whatsapp",
                                      [sent |-> outcome.result.sent,
                                       failed |-> outcome.result.failed])
                    /\ calls' = outcome.calls

\* the users of /send-whatsapp requests: numbers with and without the prefix
Users == {E164Phone, WhatsappAddress(E164Phone), BadPhone}

SendWhatsappRouteRequests ==
    {[endpoint |-> "/send-whatsapp", body |-> [users |-> us, message |-> m]] :
        us \in SeqUpTo(Users, MaxRecipients), m \in {"Hello", ""}}

ReceiveSendWhatsappRoute == Receive(SendWhatsappRouteRequests)

WhatsappNext ==
    \/ ReceiveWhatsappSend
    \/ SendWhatsapp
    \/ ReceiveSendWhatsappRoute
    \/ SendWhatsappRoute
    \/ Respond

WhatsappSpec == Init /\ [][WhatsappNext]_vars

\* ------------------------------------------------------------------------
\* POST /forecast
\* ------------------------------------------------------------------------

\* Number of monthly samples of one request
MaxSamples == 3

\* A month string "YYYY-MM" is the pair of its numbers; a timestamp is the
\* number of the month since year 0
MonthString(year, month) == [year |-> year, month |-> month]

\* pd.to_datetime(month + '-01'): raises on a month that is no date
CanParseMonth(m) == m.month >= 1 /\ m.month <= 12

to_datetime(m) == m.year * 12 + (m.month - 1)

\* ds.strftime('%Y-%m')
strftime(ds) == MonthString(ds \div 12, (ds % 12) + 1)

\* the months and values clients submit; 2024-13 is no month
Months == {MonthString(2024, 11), MonthString(2024, 12), MonthString(2025, 1),
           MonthString(2024, 13)}

Samples == [month : Months, revenue : {0, 100}]

\* The JSON value under 'periods': absent, an integer, or a string int()
\* rejects
Absent == [kind |-> "absent", value |-> 0]

JsonInt(n) == [kind |-> "int", value |-> n]

JsonStr == [kind |-> "str", value |-> 0]

PeriodsValues == {Absent, JsonStr, JsonInt(0), JsonInt(1), JsonInt(2)}

DefaultPeriods == 6

\* int(data.get('periods', 6))
IntPeriods(p) == IF p = Absent THEN DefaultPeriods ELSE p.value

\* df.sort_values('ds'): the orders of the rows the sort can leave, as
\* permutations of the positions; rows of one month keep no promised order
SortOrders(monthly_data) ==
    LET n == Len(monthly_data)
    IN {p \in [1..n -> 1..n] :
           /\ \A i, j \in 1..n : i # j => p[i] # p[j]
           /\ \A i \in 1..(n - 1) :
                 to_datetime(monthly_data[p[i]].month)
                    <= to_datetime(monthly_data[p[i + 1]].month)}

\* model.fit(prophet_df): whether the fit returns.  On a history of one
\* single date the time scale is zero and the optimizer may or may not fail.
FitOutcomes(monthly_data) ==
    IF Cardinality({to_datetime(monthly_data[i].month) : i \in 1..Len(monthly_data)}) < 2
    THEN {TRUE, FALSE}
    ELSE {TRUE}

\* Prophet.fit keeps history_dates: the distinct ds of the history, ascending
history_dates(df) == SortedSeq({to_datetime(df[i].month) : i \in 1..Len(df)})

\* model.make_future_dataframe(periods, freq='MS'): the history dates and
\* the periods month starts after the last of them
make_future_dataframe(dates, periods) ==
    dates \o [k \in 1..periods |-> dates[Len(dates)] + k]

\* model.predict(future): one row per date of future
predict(future) ==
    [i \in 1..Len(future) |->
        [ds |-> future[i], yhat |-> <<"yhat", future[i]>>, trend |-> <<"trend", future[i]>>]]

\* forecast.iloc[:historical_count]
historical_forecast(fc, historical_count) == SubSeq(fc, 1, Min2(historical_count, Len(fc)))

\* forecast.iloc[historical_count - 1:]
future_forecast_from_count(fc, historical_count) == SubSeq(fc, historical_count, Len(fc))

\* forecast.iloc[historical_count:]
future_forecast(fc, historical_count) == SubSeq(fc, historical_count + 1, Len(fc))

\* the loop over df.iterrows(): a row is reported when historical_forecast
\* has a row of its ds
HistoricalPoints(df, hist) ==
    LET kept == SelectSeq([i \in 1..Len(df) |-> i],
                          LAMBDA i : \E k \in 1..Len(hist) :
                                        hist[k].ds = to_datetime(df[i].month))
    IN [k \in 1..Len(kept) |->
           [month |-> df[kept[k]].month, value |-> df[kept[k]].revenue,
            type |-> "historical"]]

\* the loop over future_forecast.iterrows()
ForecastPoints(rows) ==
    [k \in 1..Len(rows) |->
        [month |-> strftime(rows[k].ds), value |-> rows[k].yhat, type |-> "forecast"]]

\* actuals - predictions: numpy raises ValueError for two arrays of different
\* lengths unless one of them has a single element
CanBroadcast(n, m) == n = m \/ n = 1 \/ m = 1

\* lines 208-293 for one order of the sorted frame: the points of the
\* response, or the exception of the metrics
ForecastBody(monthly_data, periods, order) ==
    LET df == [i \in 1..Len(monthly_data) |-> monthly_data[order[i]]]
        fc == predict(make_future_dataframe(history_dates(df), periods))
        historical_count == Len(df)
        hist == historical_forecast(fc, historical_count)
    IN [raised |-> IF CanBroadcast(Len(df), Len(hist)) THEN "" ELSE "ValueError",
        historical |-> HistoricalPoints(df, hist),
        forecast |-> ForecastPoints(future_forecast(fc, historical_count))]

\* the values model.predict can give yhat on the rows of the history
YhatValues == {0, 50}

\* historical_forecast['yhat'].values: one value per row of the slice
PredictionVectors(monthly_data, periods) ==
    LET dates == {to_datetime(monthly_data[i].month) : i \in 1..Len(monthly_data)}
    IN [1..Min2(Len(monthly_data), Cardinality(dates) + periods) -> YhatValues]

\* a metric: a number num/den, or the float inf or nan; divided tells whether
\* the division by the actuals was evaluated
Number(num, den, divided) == [kind |-> "number", num |-> num, den |-> den, divided |-> divided]

NotANumber(kind) == [kind |-> kind, num |-> 0, den |-> 0, divided |-> TRUE]

\* the test of line 271 with the division always evaluated
AlwaysDivide(actuals) == TRUE

\* np.any(actuals != 0)
AnyNonZero(actuals) == \E i \in 1..Len(actuals) : actuals[i] # 0

\* np.mean(np.abs((actuals - predictions) / actuals)) * 100: a zero actual
\* gives the element nan when its prediction is zero too and inf otherwise;
\* nan absorbs inf in the mean.  The mean is kept as a fraction over the
\* product of the distinct actuals.
MeanAbsPercentage(actuals, predictions) ==
    LET n == Len(actuals)
        pred(i) == IF Len(predictions) = 1 THEN predictions[1] ELSE predictions[i]
        zero == {i \in 1..n : actuals[i] = 0}
        values == SortedSeq({actuals[i] : i \in 1..n})
        product[k \in 0..Len(values)] == IF k = 0 THEN 1 ELSE product[k - 1] * values[k]
        common == product[Len(values)]
        sum[i \in 0..n] ==
            IF i = 0 THEN 0
            ELSE sum[i - 1]
                 + Abs(actuals[i] - pred(i)) * 100 * (common \div actuals[i])
    IN IF \E i \in zero : pred(i) = 0 THEN NotANumber("nan")
       ELSE IF zero # {} THEN NotANumber("inf")
       ELSE Number(sum[n], n * common, TRUE)

\* line 271
mape(actuals, predictions) ==
    IF AnyNonZero(actuals) THEN MeanAbsPercentage(actuals, predictions)
    ELSE Number(0, 1, FALSE)

\* lines 268-271 for one order of the sorted frame
Metrics(monthly_data, order, predictions) ==
    [mape |-> mape([i \in 1..Len(monthly_data) |-> monthly_data[order[i]].revenue],
                   predictions)]

\* the test of line 199 with 2 for 3
InsufficientDataBelowTwo(monthly_data) == Len(monthly_data) < 2

\* if len(monthly_data) < 3
InsufficientData(monthly_data) == Len(monthly_data) < 3

NoPoints == [historical |-> <<>>, forecast |-> <<>>]

ProphetCalls == <<"Prophet", "fit", "make_future_dataframe", "predict">>

Forecast ==
    /\ Pending("/forecast")
    /\ UNCHANGED <<segmentation, environ, collector, threads, request>>
    /\ LET data == request.body
           monthly_data == data.monthlyData
       IN
       IF data.empty
       THEN /\ response' = ErrorResponse("/forecast", 400, <<"No data provided">>, NoPoints)
            /\ calls' = <<>>
       ELSE IF data.periods.kind = "str"
       THEN /\ response' = ErrorResponse("/forecast", 500,
                              <<"invalid literal for int() with base 10: ", "abc">>, NoPoints)
            /\ calls' = <<>>
       ELSE IF InsufficientData(monthly_data)
       THEN /\ response' = ErrorResponse("/forecast", 400,
                              <<"Insufficient data", ". Need at least 3 months of historical data.">>,
                              [historical |-> monthly_data, forecast |-> <<>>])
            /\ calls' = <<>>
       ELSE IF \E i \in 1..Len(monthly_data) : ~CanParseMonth(monthly_data[i].month)
       THEN /\ response' = ErrorResponse("/forecast", 500, <<"ParserError">>, NoPoints)
            /\ calls' = <<>>
       ELSE \E order \in SortOrders(monthly_data), fitted \in FitOutcomes(monthly_data),
               predictions \in PredictionVectors(monthly_data, IntPeriods(data.periods)) :
               LET result == ForecastBody(monthly_data, IntPeriods(data.periods), order)
               IN IF ~fitted
                  THEN /\ response' = ErrorResponse("/forecast", 500,
                                                    <<"RuntimeError">>, NoPoints)
                       /\ calls' = <<"Prophet", "fit">>
                  ELSE /\ response' =
                            IF result.raised # ""
                            THEN ErrorResponse("/forecast", 500,
                                     <<"operands could not be broadcast together">>,
                                     NoPoints)
                            ELSE OkResponse("/forecast",
                                     [historical |-> result.historical,
                                      forecast |-> result.forecast,
                                      metrics |-> Metrics(monthly_data, order,
                                                          predictions)])
                       /\ calls' = ProphetCalls

\* the bodies of /forecast requests: the empty object, or monthlyData with
\* or without periods
ForecastRequests ==
    {[endpoint |-> "/forecast",
      body |-> [empty |-> TRUE, monthlyData |-> <<>>, periods |-> Absent]]}
    \cup {[endpoint |-> "/forecast",
           body |-> [empty |-> FALSE, monthlyData |-> md, periods |-> p]] :
             md \in SeqUpTo(Samples, MaxSamples), p \in PeriodsValues}

ReceiveForecast == Receive(ForecastRequests)

ForecastNext ==
    \/ ReceiveForecast
    \/ Forecast
    \/ Respond

ForecastInit == Init /\ environ = Configured

ForecastSpec == ForecastInit /\ [][ForecastNext]_vars

\* ------------------------------------------------------------------------
\* The fuzzy classification of one record
\* ------------------------------------------------------------------------

\* The records classified one at a time: every combination of these values
\* of the four inputs
RecordGrid ==
    [total_spent : {0, 1200, 2500, 3800, 4800},
     intent_score : {0, 40, 60, 80, 95},
     touchpoints_count : {0, 6, 12, 16, 18},
     recency : {10, 180, 400, 620, 800}]

ReceiveRecord ==
    Receive({[endpoint |-> "apply_fuzzy_segmentation", body |-> r] : r \in RecordGrid})

\* one pass of the loop of segment_customers over the rows, for one row
ApplyFuzzySegmentation ==
    /\ Pending("apply_fuzzy_segmentation")
    /\ response' = OkResponse("apply_fuzzy_segmentation",
                              apply_fuzzy_segmentation(request.body))
    /\ UNCHANGED <<segmentation, environ, collector, threads, request, calls>>

FuzzyNext ==
    \/ SegmentationNext
    \/ ReceiveRecord
    \/ ApplyFuzzySegmentation
    \/ Respond

\* The segmentation endpoints and the classification of single records
FuzzySpec == SegmentationInit /\ [][FuzzyNext]_vars

\* ------------------------------------------------------------------------
\* Properties of the segmentation endpoints
\* ------------------------------------------------------------------------

\* the handler of endpoint answers in this step
Answers(endpoint) == Pending(endpoint) /\ response' # NoResponse

\* an upload initialize_segmentation_models can fit: a CSV file with the
\* required columns and at least n_clusters rows without a missing feature
Trainable(up) ==
    /\ up.part = "file"
    /\ HasRequiredColumns(up.df)
    /\ Len(up.df.rows) >= n_clusters
    /\ ~HasNaN(FeatureRows(up.df))

\* C1 as the specification states it: a POST /segmentation that arrives while
\* the pipeline is uninitialized returns an error, classifies no record and
\* leaves the pipeline uninitialized.
C1_ClassifyBeforeInitializationFails ==
    [][(~segmentation_initialized /\ Answers("/segmentation"))
          => (response'.status # 200 /\ ~segmentation_initialized')]_vars

\* C1, amended: a POST /segmentation that arrives while the pipeline is
\* uninitialized first initializes it from the uploaded batch.  Only when
\* that batch cannot be fitted (or no file is uploaded) does it return an
\* error without any classification and leave the pipeline uninitialized;
\* otherwise the pipeline becomes initialized, fitted on that batch, and the
\* response classifies every uploaded row.
C1_LazyInitialization ==
    [][(~segmentation_initialized /\ Answers("/segmentation"))
          => IF Trainable(request.body)
             THEN /\ response'.status = 200
                  /\ Len(response'.body) = Len(request.body.df.rows)
                  /\ segmentation_initialized'
                  /\ segmentation_scaler'.fitted
                  /\ segmentation_kmeans'.fitted
                  /\ segmentation_kmeans'.fit_on = FeatureRows(request.body.df)
             ELSE /\ response'.status \in {400, 500}
                  /\ response'.body = <<>>
                  /\ ~segmentation_initialized']_vars

\* a first POST /segmentation has initialized the models and classified
C1_Witness ==
    /\ Answered("/segmentation")
    /\ calls = <<"initialize_segmentation_models">>
    /\ response.status = 200
    /\ segmentation_initialized

\* C2 as the specification states it: once the pipeline is initialized, the
\* scaler and the cluster model are never replaced or changed, whatever
\* POST /segmentation and POST /segmentation/initialize requests follow.
C2_ModelsFrozen ==
    [][segmentation_initialized
          => UNCHANGED <<segmentation_scaler, segmentation_kmeans>>]_vars

\* C2, amended: once the pipeline is initialized, no POST /segmentation
\* replaces or changes the scaler or the cluster model; they change only in
\* the handling of a POST /segmentation/initialize that uploads a file.
C2_ClassifyKeepsModels ==
    [][(segmentation_initialized
           /\ <<segmentation_scaler, segmentation_kmeans>>'
                 # <<segmentation_scaler, segmentation_kmeans>>)
          => (Pending("/segmentation/initialize") /\ request.body.part = "file")]_vars

\* an initialized pipeline has classified a batch without fitting anything
C2_Witness ==
    /\ segmentation_initialized
    /\ Answered("/segmentation")
    /\ response.status = 200
    /\ calls = <<>>
    /\ fits >= 1

\* C3: the flag segmentation_initialized is one-way: no step sets it back to
\* False, and a step that sets it to True leaves a scaler and a cluster model
\* both fitted by that step's call of initialize_segmentation_models.
C3_OneWayFlag ==
    [][/\ segmentation_initialized => segmentation_initialized'
       /\ (~segmentation_initialized /\ segmentation_initialized')
             => /\ fits' = fits + 1
                /\ segmentation_scaler'.fitted
                /\ segmentation_scaler'.obj = fits'
                /\ segmentation_kmeans'.fitted
                /\ segmentation_kmeans'.obj = fits'
                /\ segmentation_kmeans'.scaler = fits']_vars

\* an initialize request has failed on an initialized pipeline, and the flag
\* is still set
C3_Witness ==
    /\ segmentation_initialized
    /\ Answered("/segmentation/initialize")
    /\ response.status = 500
    /\ calls = <<"initialize_segmentation_models">>

\* C4: every record of a successful (HTTP 200) POST /segmentation response
\* has a cluster_label in {0, 1, 2, 3}, never the placeholder -1.
C4_ClusterLabels ==
    (Answered("/segmentation") /\ response.status = 200)
       => \A i \in 1..Len(response.body) : response.body[i].cluster_label \in {0, 1, 2, 3}

\* a successful response with four records that carry different labels
C4_Witness ==
    /\ Answered("/segmentation")
    /\ response.status = 200
    /\ Len(response.body) = 4
    /\ response.body[1].cluster_label = 0
    /\ response.body[4].cluster_label = 3

\* every rule that fires on the record has the consequent
\* high_value_engagement (rules 1, 4 and 6), and one of them fires
OnlyHighValueRulesFire(row) ==
    LET firing == RuleFiring(row)
    IN /\ \E r \in Rules : firing[r] > 0
       /\ \A r \in Rules : firing[r] > 0 => r \in {"rule1", "rule4", "rule6"}

\* the record total_spent=4800, intent_score=0.95, touchpoints_count=18,
\* recency=10
IsHighValueExample(record) ==
    /\ record.total_spent = 4800
    /\ record.intent_score = 95
    /\ record.touchpoints_count = 18
    /\ record.recency = 10

\* C5: a successful classification reports the record total_spent=4800,
\* intent_score=0.95, touchpoints_count=18, recency=10 as "High Value
\* Engagement"; and for any record on which only rules 1, 4 and 6 fire the
\* defuzzified centroid lies in [4.5, 7.5) and the category is "High Value
\* Engagement".
C5_HighValueEngagement ==
    /\ (Answered("/segmentation") /\ response.status = 200)
          => \A i \in 1..Len(response.body) :
                IsHighValueExample(response.body[i])
                   => response.body[i].promotional_segment_category
                         = "High Value Engagement"
    /\ (Answered("apply_fuzzy_segmentation") /\ OnlyHighValueRulesFire(request.body))
          => LET score == response.body.promotional_segment_score
             IN /\ score.den > 0
                /\ 270 * score.den <= score.num
                /\ score.num < 450 * score.den
                /\ response.body.promotional_segment_category = "High Value Engagement"

\* the example record has been classified by an initialized pipeline
C5_Witness ==
    /\ Answered("/segmentation")
    /\ response.status = 200
    /\ segmentation_initialized
    /\ \E i \in 1..Len(response.body) :
          /\ IsHighValueExample(response.body[i])
          /\ response.body[i].promotional_segment_category = "High Value Engagement"

\* ------------------------------------------------------------------------
\* Properties of the WhatsApp endpoints
\* ------------------------------------------------------------------------

\* a /whatsapp/send request with recipients has been answered by a service
\* with Twilio configured
BatchAnswered ==
    /\ Answered("/whatsapp/send")
    /\ request.body.json
    /\ request.body.recipients # <<>>
    /\ twilio_client
    /\ environ.TWILIO_WHATSAPP_FROM

\* the recipient has a phone and a message but the phone cannot be normalized
HasInvalidPhone(recipient) ==
    /\ recipient.phone # <<>>
    /\ recipient.message # ""
    /\ format_phone_number(recipient.phone) = <<>>

\* C6: for POST /whatsapp/send with recipients and Twilio configured, no
\* failure of a recipient aborts the batch: the response has one results
\* entry per recipient in input order, total is the number of recipients,
\* sent is the number of entries with success, and sent + failed = total.
C6_BatchNeverAborts ==
    BatchAnswered
       => LET recipients == request.body.recipients
              report == response.body
          IN /\ response.status = 200
             /\ Len(report.results) = Len(recipients)
             /\ \A i \in 1..Len(recipients) :
                   report.results[i].phone = recipients[i].phone
             /\ report.total = Len(recipients)
             /\ report.sent = Cardinality({i \in 1..Len(report.results) :
                                              report.results[i].success})
             /\ report.sent + report.failed = report.total

\* a batch whose first recipient lacks a message, whose second has an
\* invalid phone and whose third was refused by the provider
C6_Witness ==
    /\ BatchAnswered
    /\ Len(request.body.recipients) = 3
    /\ request.body.recipients[1].message = ""
    /\ HasInvalidPhone(request.body.recipients[2])
    /\ response.body.failed = 3
    /\ response.body.results[3].error = Text("Unable to create record", <<>>)

\* C7: a recipient whose phone cannot be normalized gets a results entry
\* with success False whose error text contains the phone as submitted, and
\* the provider is still called for every recipient that can be reached; a
\* batch of 3 with exactly one invalid phone whose other sends succeed
\* reports failed = 1 and sent = 2.
C7_InvalidPhoneReported ==
    BatchAnswered
       => LET recipients == request.body.recipients
              report == response.body
              invalid == {i \in 1..Len(recipients) : HasInvalidPhone(recipients[i])}
          IN /\ \A i \in invalid :
                   /\ ~report.results[i].success
                   /\ recipients[i].phone \in Range(report.results[i].error.args)
             /\ Len(calls) = Cardinality({i \in 1..Len(recipients) :
                                             /\ recipients[i].phone # <<>>
                                             /\ recipients[i].message # ""
                                             /\ i \notin invalid})
             /\ (/\ Len(recipients) = 3
                 /\ Cardinality(invalid) = 1
                 /\ \A i \in (1..3) \ invalid : report.results[i].success)
                   => (report.failed = 1 /\ report.sent = 2)

\* three recipients, the second with an invalid phone, the others sent
C7_Witness ==
    /\ BatchAnswered
    /\ Len(request.body.recipients) = 3
    /\ HasInvalidPhone(request.body.recipients[2])
    /\ response.body.results[1].success
    /\ response.body.results[3].success
    /\ response.body.failed = 1
    /\ response.body.sent = 2

\* C8: POST /send-whatsapp with a non-empty list users and a non-empty
\* message, credentials present, calls the whatsapp_client dispatcher on
\* those users and returns its report, in which every user appears exactly
\* once in sent or failed; it does not return an error response.
C8_RouteDispatches ==
    (/\ Answered("/send-whatsapp")
     /\ request.body.users # <<>>
     /\ request.body.message # ""
     /\ environ.TWILIO_ACCOUNT_SID
     /\ environ.TWILIO_AUTH_TOKEN)
       => /\ response.status = 200
          /\ calls = DispatchCalls(request.body.users, request.body.message)
          /\ Len(response.body.sent) + Len(response.body.failed)
                = Len(request.body.users)

\* ------------------------------------------------------------------------
\* Properties of POST /forecast
\* ------------------------------------------------------------------------

\* the answer of the validation of line 199
IsInsufficientDataAnswer ==
    /\ response.status = 400
    /\ response.error[1] = "Insufficient data"
    /\ response.body.historical = request.body.monthlyData
    /\ response.body.forecast = <<>>
    /\ calls = <<>>

\* C9 as the specification states it: POST /forecast with fewer than 3
\* monthly samples returns HTTP 400 with a message starting "Insufficient
\* data", echoes the samples as historical, returns an empty forecast, and
\* does so before the forecasting model is constructed or fitted.
C9_FewSamplesRejected ==
    (Answered("/forecast") /\ Len(request.body.monthlyData) < 3)
       => IsInsufficientDataAnswer

\* C9, amended: POST /forecast with a non-empty JSON body whose periods is
\* absent or an integer and whose monthlyData has fewer than 3 samples
\* returns HTTP 400 with a message starting "Insufficient data", echoes the
\* samples as historical, returns an empty forecast, and calls nothing of the
\* forecasting model.
C9_InsufficientData ==
    (/\ Answered("/forecast")
     /\ ~request.body.empty
     /\ request.body.periods.kind # "str"
     /\ Len(request.body.monthlyData) < 3)
       => IsInsufficientDataAnswer

\* two samples were submitted and echoed
C9_Witness ==
    /\ Answered("/forecast")
    /\ Len(request.body.monthlyData) = 2
    /\ response.status = 400
    /\ response.body.historical = request.body.monthlyData

\* at least 3 samples, each of a month that is a date, and an integer horizon
ChronologicallyValid ==
    /\ ~request.body.empty
    /\ request.body.periods.kind # "str"
    /\ Len(request.body.monthlyData) >= 3
    /\ \A i \in 1..Len(request.body.monthlyData) :
          CanParseMonth(request.body.monthlyData[i].month)

\* no two samples are of the same month
DistinctMonths ==
    \A i, j \in 1..Len(request.body.monthlyData) :
       i # j => request.body.monthlyData[i].month # request.body.monthlyData[j].month

\* the forecast has periods entries of type forecast for the months after
\* the last sample; historical has one entry per sample, ascending by month
IsForecastAnswer ==
    LET md == request.body.monthlyData
        periods == IntPeriods(request.body.periods)
        last == SetMax({to_datetime(md[i].month) : i \in 1..Len(md)})
        historical == response.body.historical
        fc == response.body.forecast
    IN /\ response.status = 200
       /\ Len(fc) = periods
       /\ \A k \in 1..Len(fc) :
             fc[k].type = "forecast" /\ fc[k].month = strftime(last + k)
       /\ Len(historical) = Len(md)
       /\ \A k \in 1..(Len(historical) - 1) :
             to_datetime(historical[k].month) <= to_datetime(historical[k + 1].month)
       /\ \A i \in 1..Len(md) :
             Cardinality({k \in 1..Len(historical) :
                             historical[k].month = md[i].month
                             /\ historical[k].value = md[i].revenue})
                >= 1

AllActualsZero ==
    \A i \in 1..Len(request.body.monthlyData) : request.body.monthlyData[i].revenue = 0

\* C11: in a successful POST /forecast the MAPE metric is 0, and no division
\* by the actuals is performed, whenever every historical actual is zero.
C11_MapeZeroActuals ==
    (Answered("/forecast") /\ response.status = 200 /\ AllActualsZero)
       => /\ response.body.metrics.mape.kind = "number"
          /\ response.body.metrics.mape.num = 0
          /\ ~response.body.metrics.mape.divided

\* a forecast over three zero actuals of distinct months has been answered
C11_Witness ==
    /\ Answered("/forecast")
    /\ response.status = 200
    /\ AllActualsZero
    /\ DistinctMonths
    /\ Len(request.body.monthlyData) = 3
    /\ response.body.metrics.mape = Number(0, 1, FALSE)

\* ------------------------------------------------------------------------
\* The normalization of one phone string
\* ------------------------------------------------------------------------

\* The strings normalized one at a time: a ten-digit or shorter number, with
\* or without a prefix, written with or without separators
NationalNumbers ==
    {<<"9", "8", "7", "6", "5", "4", "3", "2", "1", "0">>,
     <<"4", "1", "5", "5", "5", "5", "2", "6", "7", "1">>,
     <<"5", "5", "5", "1", "2", "3", "4", "5", "6", "7">>,
     <<"6", "9", "1", "2", "3", "4", "5", "6", "7", "8">>,
     <<"7", "3", "4", "5", "6", "7", "8", "9", "0", "1">>,
     <<"2", "3", "4", "5", "6", "7", "8", "9", "0", "1">>,
     <<"2", "3", "4", "5", "6">>}

Prefixes ==
    {<<>>, <<"+">>, <<"+", "9", "1">>, <<"+", "1">>, <<"+", "4", "4">>,
     <<"+", "4", "9">>, <<"9", "1">>}

Separators == {"", " ", "-", "("}

\* the number written with a separator: after the fifth digit for a space,
\* after the third for a dash, parentheses around the first three digits
Separated(number, sep) ==
    CASE sep = "" -> number
      [] sep = " " -> SubSeq(number, 1, 5) \o <<" ">> \o SubSeq(number, 6, Len(number))
      [] sep = "-" -> SubSeq(number, 1, 3) \o <<"-">> \o SubSeq(number, 4, Len(number))
      [] sep = "(" -> <<"(">> \o SubSeq(number, 1, 3) \o <<")", " ">>
                         \o SubSeq(number, 4, Len(number))

PhoneInputs ==
    {<<>>} \cup {pre \o Separated(n, sep) :
                    pre \in Prefixes, n \in NationalNumbers, sep \in Separators}

ReceivePhone ==
    Receive({[endpoint |-> "format_phone_number", body |-> ph] : ph \in PhoneInputs})

\* one call of format_phone_number
FormatPhoneNumber ==
    /\ Pending("format_phone_number")
    /\ response' = OkResponse("format_phone_number", format_phone_number(request.body))
    /\ UNCHANGED <<segmentation, environ, collector, threads, request, calls>>

PhoneNext ==
    \/ ReceivePhone
    \/ FormatPhoneNumber
    \/ Respond

PhoneSpec == SegmentationInit /\ [][PhoneNext]_vars

\* C12: format_phone_number returns an input that starts with '+' and is a
\* valid E.164 number unchanged, and normalization is idempotent: a result
\* that is not None normalizes to itself.
C12_Idempotent ==
    Answered("format_phone_number")
       => /\ (StartsWith(request.body, <<"+">>) /\ request.body \in ValidNumbers)
                => response.body = request.body
          /\ response.body # <<>> => format_phone_number(response.body) = response.body

\* a number written without '+' and with a separator has been normalized
C12_Witness ==
    /\ Answered("format_phone_number")
    /\ response.body # <<>>
    /\ ~StartsWith(request.body, <<"+">>)
    /\ CleanPhone(request.body) # request.body
    /\ format_phone_number(response.body) = response.body

\* a string of exactly ten digits
TenDigits(p) == Len(p) = 10 /\ IsDigits(p)

LooksIndian(p) == p[1] \in {"6", "7", "8", "9"}

\* C13: a bare 10-digit input whose first digit is 6-9, that is not valid
\* under the default region US and is valid with +91 in front, is returned as
\* '+91' followed by the digits, whatever was normalized or served before.
C13_IndianNumber ==
    (/\ Answered("format_phone_number")
     /\ TenDigits(request.body)
     /\ LooksIndian(request.body)
     /\ TryParse(request.body, "US") = <<>>
     /\ (<<"+", "9", "1">> \o request.body) \in ValidNumbers)
       => response.body = <<"+", "9", "1">> \o request.body

\* 9876543210 has been normalized to +919876543210
C13_Witness ==
    /\ Answered("format_phone_number")
    /\ request.body = CleanPhone(BarePhone)
    /\ TenDigits(request.body) /\ LooksIndian(request.body)
    /\ TryParse(request.body, "US") = <<>>
    /\ response.body = <<"+", "9", "1">> \o request.body

\* the numbers format_phone_number has parsed with a calling code put in
\* front of the cleaned string, in the order of the calls
PrefixedTried(phone) ==
    SelectSeq([i \in 1..Len(Tried(phone)) |-> Tried(phone)[i].number],
              LAMBDA n : n # CleanPhone(phone))

\* the candidates of step 4 in the order the code makes them: +91 first for
\* a first digit 6-9, then the list of country_codes
CandidateOrder(p) ==
    LET order == (IF LooksIndian(p) THEN <<"IN">> ELSE <<>>) \o country_codes
    IN [i \in 1..Len(order) |-> WithCallingCode(order[i], p)]

\* C19 as stated: for ten digits with a first digit 6-9 the only calling code
\* tried is +91, and the list +91, +1, +44, +61, +49 is tried only for another
\* first digit.
C19_OnlyIndiaPrefix ==
    (/\ Answered("format_phone_number")
     /\ TenDigits(request.body)
     /\ TryParse(request.body, "US") = <<>>)
       => IF LooksIndian(request.body)
          THEN Range(PrefixedTried(request.body))
                  \subseteq {WithCallingCode("IN", request.body)}
          ELSE \E n \in 0..Len(country_codes) :
                  PrefixedTried(request.body)
                     = SubSeq(CandidateOrder(request.body), 1, n)

\* C19: for ten digits not valid under US, +91 is tried first when the first
\* digit is 6-9 and the list +91, +1, +44, +61, +49 is tried next for every
\* first digit; the first valid candidate is returned and nothing after it is
\* tried, and with no valid candidate all of them have been tried.
C19_IndiaFirstThenList ==
    (/\ Answered("format_phone_number")
     /\ TenDigits(request.body)
     /\ TryParse(request.body, "US") = <<>>)
       => LET cands == CandidateOrder(request.body)
              valid == {i \in 1..Len(cands) : cands[i] \in ValidNumbers}
          IN IF valid = {}
             THEN PrefixedTried(request.body) = cands
             ELSE \E i \in valid :
                     /\ \A j \in valid : i <= j
                     /\ response.body = cands[i]
                     /\ PrefixedTried(request.body) = SubSeq(cands, 1, i)

\* 6912345678 is not valid with +91; +1, +44 and +61 have been tried after it
\* and +496912345678 has been returned
C19_Witness ==
    /\ Answered("format_phone_number")
    /\ TenDigits(request.body)
    /\ LooksIndian(request.body)
    /\ TryParse(request.body, "US") = <<>>
    /\ WithCallingCode("IN", request.body) \notin ValidNumbers
    /\ WithCallingCode("GB", request.body) \in Range(PrefixedTried(request.body))
    /\ response.body = WithCallingCode("DE", request.body)

\* ------------------------------------------------------------------------
\* The mapping of one score to a category
\* ------------------------------------------------------------------------

\* The scores mapped one at a time, as num/den in units of 1/Degree: every
\* sixtieth from below 0 to above 10, sevenths of a sixtieth around each bin
\* edge, and NaN
Scores ==
    {[num |-> n, den |-> 1] : n \in (0 - 40)..640}
    \cup {[num |-> n, den |-> 7] :
             n \in ((0 - 10)..10) \cup (1880..1900) \cup (3140..3160) \cup (4190..4210)}
    \cup {NaNScore}

ReceiveScore ==
    Receive({[endpoint |-> "categorize", body |-> sc] : sc \in Scores})

\* lines 506-517 of apply_fuzzy_segmentation on one output of the simulation
CategorizeScore ==
    /\ Pending("categorize")
    /\ response' = OkResponse("categorize",
                      Categorize([raised |-> "", num |-> request.body.num,
                                  den |-> request.body.den]))
    /\ UNCHANGED <<segmentation, environ, collector, threads, request, calls>>

ScoreNext ==
    \/ ReceiveScore
    \/ CategorizeScore
    \/ Respond

ScoreSpec == SegmentationInit /\ [][ScoreNext]_vars

\* C17: on [0, 10] the mapping from score to category is total and
\* exclusive: 'New Customer Nurture' iff 0 <= s < 4.5, 'High Value
\* Engagement' iff 4.5 <= s < 7.5, 'Re-engagement' iff 7.5 <= s <= 10; the
\* category is 'Unknown' only for a score that is NaN or outside [0, 10].
C17_CategoryMapping ==
    Answered("categorize")
       => LET s == request.body
              category == response.body.promotional_segment_category
          IN IF s.den = 0 THEN category = "Unknown"
             ELSE /\ category = "New Customer Nurture"
                        <=> (0 <= s.num /\ s.num < 270 * s.den)
                  /\ category = "High Value Engagement"
                        <=> (270 * s.den <= s.num /\ s.num < 450 * s.den)
                  /\ category = "Re-engagement"
                        <=> (450 * s.den <= s.num /\ s.num <= 600 * s.den)
                  /\ category = "Unknown"
                        <=> (s.num < 0 \/ s.num > 600 * s.den)

\* the score 4.5 has been mapped to 'High Value Engagement'
C17_Witness ==
    /\ Answered("categorize")
    /\ request.body = [num |-> 270, den |-> 1]
    /\ response.body.promotional_segment_category = "High Value Engagement"

\* the inference of a record of the response fails: no rule fires on it
InferenceFails(record) ==
    FuzzyResults[[f \in Range(clustering_features) |-> record[f]]]
       .promotional_segment_category = "Unknown"

\* C18: a failure of the fuzzy inference stays with its record.  In every
\* successful POST /segmentation response a record whose inference fails has
\* the category 'Unknown' and a null score, and every record has the score
\* and the category of its own four inputs, whatever records precede it; a
\* batch a fitted scaler and cluster model can label is answered with 200
\* although the inference fails on one of its records.
C18_FailuresPerRecord ==
    /\ (Answered("/segmentation") /\ response.status = 200)
          => \A i \in 1..Len(response.body) :
                LET record == response.body[i]
                    own == apply_fuzzy_segmentation(
                              [f \in Range(clustering_features) |-> record[f]])
                IN /\ record.promotional_segment_score = own.promotional_segment_score
                   /\ record.promotional_segment_category
                         = own.promotional_segment_category
                   /\ compute([f \in Range(clustering_features) |-> record[f]]).raised
                         = "ValueError"
                         => /\ record.promotional_segment_category = "Unknown"
                            /\ record.promotional_segment_score = NaNScore
    /\ (/\ Answered("/segmentation")
        /\ request.body.part = "file"
        /\ segmentation_scaler.fitted
        /\ segmentation_kmeans.fitted
        /\ HasRequiredColumns(request.body.df)
        /\ Len(request.body.df.rows) > 0
        /\ ~HasNaN(FeatureRows(request.body.df))
        /\ \E i \in 1..Len(request.body.df.rows) :
              InferenceFails(FeatureRows(request.body.df)[i]))
          => response.status = 200

\* the inference has failed on the first record of a batch and succeeded on
\* the second, and in another batch the other way round
C18_Witness ==
    /\ Answered("/segmentation")
    /\ response.status = 200
    /\ Len(response.body) >= 2
    /\ \/ /\ response.body[1].promotional_segment_category = "Unknown"
          /\ response.body[1].promotional_segment_score = NaNScore
          /\ response.body[2].promotional_segment_category = "High Value Engagement"
       \/ /\ response.body[1].promotional_segment_category = "High Value Engagement"
          /\ response.body[2].promotional_segment_category = "Unknown"
          /\ response.body[2].promotional_segment_score = NaNScore

\* only values of intent_score and touchpoints_count are missing in the
\* records of the uploaded file, which has at least n_clusters records
OnlyDefaultableMissing(up) ==
    /\ up.part = "file"
    /\ HasRequiredColumns(up.df)
    /\ Len(up.df.rows) >= n_clusters
    /\ \A i \in 1..Len(up.df.rows) :
          /\ FeatureRows(up.df)[i].total_spent # NaN
          /\ FeatureRows(up.df)[i].recency # NaN

\* C20 as the specification states it: in initialize and in classify a
\* record with a missing intent_score is processed with 0.5 and one with a
\* missing touchpoints_count with 0, whether the column is absent or only
\* the record's value is missing; a missing value never makes the batch fail.
C20_MissingValuesDefaulted ==
    \A e \in {"/segmentation", "/segmentation/initialize"} :
        (Answered(e) /\ OnlyDefaultableMissing(request.body))
           => response.status = 200

\* ------------------------------------------------------------------------
\* sample.py: get(session, url, params)
\* ------------------------------------------------------------------------

\* session.get calls one call of get() makes at most
MaxAttempts == 3

\* get() is called only while the clock is below this
MaxClock == 3

GetUrls == {"/users/o/repos", "/repos/o/r/commits"}

GetParams == {"per_page=1", "per_page=100"}

\* What session.get can do at time t: raise a transport error, or return a
\* response with a status, the header X-RateLimit-Remaining ("" when absent)
\* and the header X-RateLimit-Reset (None when absent)
SessionOutcomes(t) ==
    {[exc |-> "ConnectionError", status_code |-> 0, remaining |-> "", reset |-> None]}
    \cup [exc : {""}, status_code : {200, 202, 403, 404, 500},
          remaining : {"", "0", "5"}, reset : {None, Max2(t - 1, 0), t, t + 2}]

\* resp.status_code == 403 and resp.headers.get('X-RateLimit-Remaining') == '0'
RateLimited(resp) == resp.status_code = 403 /\ resp.remaining = "0"

\* wait = reset - time.time()
RateLimitWaitNoFloor(resp, t) ==
    (IF resp.reset = None THEN t + 60 ELSE resp.reset) - t

\* reset = int(headers.get('X-RateLimit-Reset', time.time()+60));
\* wait = max(reset - time.time(), 1)
RateLimitWait(resp, t) ==
    Max2((IF resp.reset = None THEN t + 60 ELSE resp.reset) - t, 1)

\* the response makes the loop of get() go round again
Retried(resp) == resp.exc = "" /\ (resp.status_code = 202 \/ RateLimited(resp))

\* get(session, url, params) is called
CallGet ==
    /\ frame.state = "idle"
    /\ now < MaxClock
    /\ \E url \in GetUrls, params \in GetParams :
          frame' = [NoFrame EXCEPT !.state = "running", !.url = url, !.params = params]
    /\ session' = <<>>
    /\ UNCHANGED <<segmentation, environ, request, response, calls, now, pc, repos,
                   repo_stats, metrics, received, files, pagination, threads>>

\* one round of the loop of get(): session.get, then the sleep and continue,
\* or raise_for_status and return
GetIteration ==
    /\ frame.state = "running"
    /\ \E resp \in SessionOutcomes(now) :
          /\ Retried(resp) => Len(session) + 1 < MaxAttempts
          /\ session' = Append(session, [url |-> frame.url, params |-> frame.params])
          /\ LET seen == [frame EXCEPT !.status_code = resp.status_code,
                                       !.remaining = resp.remaining,
                                       !.reset = resp.reset]
             IN IF resp.exc # ""
                THEN /\ frame' = [seen EXCEPT !.state = "raised", !.exc = resp.exc]
                     /\ now' = now
                ELSE IF resp.status_code = 202
                THEN /\ frame' = [seen EXCEPT !.slept = @ + 1]
                     /\ now' = now + 1
                ELSE IF RateLimited(resp)
                THEN /\ frame' = [seen EXCEPT !.slept = @ + RateLimitWait(resp, now)]
                     /\ now' = now + RateLimitWait(resp, now)
                ELSE IF resp.status_code >= 400
                THEN /\ frame' = [seen EXCEPT !.state = "raised", !.exc = "HTTPError"]
                     /\ now' = now
                ELSE /\ frame' = [seen EXCEPT !.state = "returned"]
                     /\ now' = now
    /\ UNCHANGED <<segmentation, environ, request, response, calls, pc, repos,
                   repo_stats, metrics, received, files, pagination, threads>>

\* the caller has the response or the exception of get()
GetReturn ==
    /\ frame.state \in {"returned", "raised"}
    /\ frame' = NoFrame
    /\ session' = <<>>
    /\ UNCHANGED <<segmentation, environ, request, response, calls, now, pc, repos,
                   repo_stats, metrics, received, files, pagination, threads>>

GetNext ==
    \/ CallGet
    \/ GetIteration
    \/ GetReturn

GetSpec == SegmentationInit /\ [][GetNext]_vars

\* C15: get() never returns and never raises a 403 response whose
\* X-RateLimit-Remaining is '0': it sleeps at least one second and until the
\* reset time the response gives, then issues the same URL and params again,
\* however many times this has happened before; what it returns is neither a
\* 202 nor a rate-limited 403 and has a non-error status.
C15_RateLimitRetried ==
    [][(frame.state = "running" /\ session' # session)
          => /\ RateLimited(frame')
                   => /\ frame'.state = "running"
                      /\ now' >= now + 1
                      /\ frame'.reset # None => now' >= frame'.reset
                      /\ frame'.url = frame.url
                      /\ frame'.params = frame.params
             /\ frame'.state = "returned"
                   => /\ frame'.status_code # 202
                      /\ ~RateLimited(frame')
                      /\ frame'.status_code < 400
             /\ (frame'.state = "raised" /\ frame'.exc = "HTTPError")
                   => (~RateLimited(frame') /\ frame'.status_code >= 400)
             /\ \A i \in 1..Len(session') :
                   session'[i] = [url |-> frame.url, params |-> frame.params]]_vars

\* get() has returned a 200 response to its third request, after a rate
\* limit without reset time (60 seconds) and another wait
C15_Witness ==
    /\ frame.state = "returned"
    /\ frame.status_code = 200
    /\ Len(session) = 3
    /\ frame.slept > 60

\* ------------------------------------------------------------------------
\* sample.py: the metrics of one repository
\* ------------------------------------------------------------------------

\* What a call of get() ends with: an exception (HTTPError from
\* raise_for_status, ConnectionError from session.get), or a response with
\* its status, the parts of its 'link' header (<<>> without the header), the
\* length of its JSON list and the total_count of its JSON object (None
\* without the key)
GetRaised(exc) ==
    [exc |-> exc, status_code |-> 0, link |-> <<>>, items |-> 0, total_count |-> None]

GetReturned(status_code, link, items, total_count) ==
    [exc |-> "", status_code |-> status_code, link |-> link, items |-> items,
     total_count |-> total_count]

GetErrors == {GetRaised("HTTPError"), GetRaised("ConnectionError")}

\* one part of a 'link' header: <url?page=..&per_page=..>; rel="..", with
\* None for a query parameter the URL does not have
LinkPart(rel, page, per_page) == [rel |-> rel, page |-> page, per_page |-> per_page]

\* the first page of /repos/{owner}/{repo}/commits asked with per_page=1
CommitsFirstPages ==
    GetErrors
    \cup {GetReturned(204, <<>>, 0, None),
          GetReturned(200, <<>>, 0, None),
          GetReturned(200, <<>>, 1, None),
          GetReturned(200, <<LinkPart("next", 2, 1)>>, 1, None),
          GetReturned(200, <<LinkPart("next", 2, 1), LinkPart("last", 3, 1)>>, 1, None),
          GetReturned(200, <<LinkPart("next", 2, None), LinkPart("last", 2, None)>>, 1, None),
          GetReturned(200, <<LinkPart("first", 1, 1), LinkPart("last", None, 1)>>, 1, None)}

\* the page the rel="last" link leads to
CommitsLastPages == {GetRaised("HTTPError"), GetReturned(200, <<>>, 1, None)}

\* the value a function returns, or the exception that leaves it
Return(value) == [raised |-> "", value |-> value]

Raise(exc) == [raised |-> exc, value |-> None]

\* 'link' in resp.headers and some part contains rel="last"
HasLastLink(resp) == \E i \in 1..Len(resp.link) : resp.link[i].rel = "last"

\* the first part of the header that contains rel="last"
LastLink(resp) ==
    resp.link[CHOOSE i \in 1..Len(resp.link) :
                 /\ resp.link[i].rel = "last"
                 /\ \A j \in 1..(i - 1) : resp.link[j].rel # "last"]

\* int(qs.get('page', ['1'])[0]) and int(qs.get('per_page', ['30'])[0])
last_page(part) == IF part.page = None THEN 1 ELSE part.page

per_page(part) == IF part.per_page = None THEN 30 ELSE part.per_page

\* the gets estimate_commit_count makes, given what the first one ends with
CommitsGets(first, last) ==
    IF first.exc = "" /\ first.status_code # 204 /\ HasLastLink(first)
    THEN <<first, last>> ELSE <<first>>

\* estimate_commit_count that counts the first page whatever the header says
estimate_from_first_page(first, last) ==
    IF first.exc # "" THEN Raise(first.exc)
    ELSE IF first.status_code = 204 THEN Return(0)
    ELSE Return(first.items)

\* estimate_commit_count(session, owner, repo, branch), given what its first
\* get() ends with and what the get() of the last page would end with
estimate_commit_count(first, last) ==
    IF first.exc # "" THEN Raise(first.exc)
    ELSE IF first.status_code = 204 THEN Return(0)
    ELSE IF HasLastLink(first)
    THEN IF last.exc # "" THEN Raise(last.exc)
         ELSE Return((last_page(LastLink(first)) - 1) * per_page(LastLink(first))
                        + last.items)
    ELSE Return(first.items)

\* the answers of /search/issues
SearchResults == GetErrors \cup {GetReturned(200, <<>>, 0, None), GetReturned(200, <<>>, 0, 0)}

\* the answers of /search/issues to the two queries of count_issues
IssuesResults == {GetRaised("HTTPError"), GetReturned(200, <<>>, 0, 1)}

\* data.get('total_count', 0)
total_count(resp) == IF resp.total_count = None THEN 0 ELSE resp.total_count

\* count_prs_merged(session, owner, repo)
count_prs_merged(resp) ==
    IF resp.exc # "" THEN Raise(resp.exc) ELSE Return(total_count(resp))

\* count_issues(session, owner, repo): the open count, then the closed one
count_issues(open, closed) ==
    IF open.exc # "" THEN [raised |-> open.exc, open |-> None, closed |-> None]
    ELSE IF closed.exc # "" THEN [raised |-> closed.exc, open |-> None, closed |-> None]
    ELSE [raised |-> "", open |-> total_count(open), closed |-> total_count(closed)]

\* the gets count_issues makes
IssuesGets(open, closed) == IF open.exc # "" THEN <<open>> ELSE <<open, closed>>

\* the first page of a paginated list, and the page its rel="next" leads to
FirstPages ==
    GetErrors
    \cup {GetReturned(200, <<>>, 2, None),
          GetReturned(200, <<LinkPart("next", 2, 1), LinkPart("last", 2, 1)>>, 1, None)}

NextPages == GetErrors \cup {GetReturned(200, <<LinkPart("prev", 1, 1)>>, 1, None)}

HasNextLink(resp) == \E i \in 1..Len(resp.link) : resp.link[i].rel = "next"

\* the gets paginate makes
PaginateGets(first, next) ==
    IF first.exc = "" /\ HasNextLink(first) THEN <<first, next>> ELSE <<first>>

\* paginate(session, url, params): the number of items gathered
paginate(first, next) ==
    IF first.exc # "" THEN Raise(first.exc)
    ELSE IF HasNextLink(first)
    THEN IF next.exc # "" THEN Raise(next.exc) ELSE Return(first.items + next.items)
    ELSE Return(first.items)

\* count_collaborators(session, owner, repo): except requests.HTTPError
count_collaborators(first, next) ==
    IF paginate(first, next).raised = "HTTPError" THEN Return(None)
    ELSE paginate(first, next)

\* ------------------------------------------------------------------------
\* sample.py: main()
\* ------------------------------------------------------------------------

\* repositories main lists at most
MaxRepos == 2

\* an item of /users/{owner}/repos
Repository(name, private, default_branch) ==
    [name |-> name, full_name |-> <<"o", name>>, private |-> private,
     default_branch |-> default_branch, forks_count |-> 1, stargazers_count |-> 2,
     watchers_count |-> 2, open_issues_count |-> 0, pushed_at |-> "2024-01-01T00:00:00Z"]

Repositories ==
    {Repository("alpha", FALSE, "main"), Repository("beta", TRUE, ""),
     Repository("gamma", FALSE, "dev")}

\* the lists list_repos can return: repositories without repetition
RepoLists ==
    {l \in UNION {[1..n -> Repositories] : n \in 0..MaxRepos} :
        \A i, j \in 1..Len(l) : i # j => l[i] # l[j]}

\* the dictionary rec of lines 156-171
Record(r, m, collaborators) ==
    [repo_name |-> r.name,
     full_name |-> r.full_name,
     visibility |-> IF r.private THEN "private" ELSE "public",
     default_branch |-> IF r.default_branch = "" THEN "main" ELSE r.default_branch,
     forks_count |-> r.forks_count,
     stargazers_count |-> r.stargazers_count,
     watchers_count |-> r.watchers_count,
     open_issues_count |-> r.open_issues_count,
     pushed_at |-> r.pushed_at,
     commits_count |-> m.commits_count,
     prs_merged_count |-> m.prs_merged_count,
     issues_open_count |-> m.issues_open_count,
     issues_closed_count |-> m.issues_closed_count,
     collaborators_count |-> collaborators]

UnchangedApp == UNCHANGED <<segmentation, environ, request, response, calls, threads>>

\* repos = list_repos(session, args.owner): an exception ends the script
ListRepos ==
    /\ pc = "main"
    /\ \E first \in FirstPages, next \in NextPages :
          /\ received' = PaginateGets(first, next)
          /\ IF paginate(first, next).raised # ""
             THEN pc' = "crashed" /\ repos' = repos
             ELSE \E l \in RepoLists :
                     /\ repos' = l
                     /\ pc' = IF Len(l) = 0 THEN "write" ELSE "commits"
    /\ UnchangedApp
    /\ UNCHANGED <<now, session, frame, repo_stats, metrics, files, pagination>>

\* lines 139-143: commits_count, None when estimate_commit_count raises
EstimateCommitCount ==
    /\ pc = "commits"
    /\ \E first \in CommitsFirstPages, last \in CommitsLastPages :
          /\ received' = CommitsGets(first, last)
          /\ metrics' = [NoMetrics EXCEPT
                            !.commits_count = estimate_commit_count(first, last).value]
    /\ pc' = "prs"
    /\ UnchangedApp
    /\ UNCHANGED <<now, session, frame, repos, repo_stats, files, pagination>>

\* lines 144-148: prs_merged, None when count_prs_merged raises
CountPrsMerged ==
    /\ pc = "prs"
    /\ \E resp \in SearchResults :
          /\ received' = <<resp>>
          /\ metrics' = [metrics EXCEPT !.prs_merged_count = count_prs_merged(resp).value]
    /\ pc' = "issues"
    /\ UnchangedApp
    /\ UNCHANGED <<now, session, frame, repos, repo_stats, files, pagination>>

\* lines 149-153: issues_open and issues_closed, both None when count_issues
\* raises
CountIssues ==
    /\ pc = "issues"
    /\ \E open \in IssuesResults, closed \in IssuesResults :
          /\ received' = IssuesGets(open, closed)
          /\ metrics' = [metrics EXCEPT
                            !.issues_open_count = count_issues(open, closed).open,
                            !.issues_closed_count = count_issues(open, closed).closed]
    /\ pc' = "collaborators"
    /\ UnchangedApp
    /\ UNCHANGED <<now, session, frame, repos, repo_stats, files, pagination>>

\* lines 154-172: collaborators = count_collaborators(..), outside any try;
\* then rec is appended to results and the loop goes to the next repository
CountCollaborators ==
    /\ pc = "collaborators"
    /\ \E first \in FirstPages, next \in NextPages :
          /\ received' = PaginateGets(first, next)
          /\ LET collaborators == count_collaborators(first, next)
                 r == repos[Len(repo_stats) + 1]
             IN IF collaborators.raised # ""
                THEN /\ pc' = "crashed"
                     /\ UNCHANGED <<repo_stats, metrics>>
                ELSE /\ repo_stats' = Append(repo_stats,
                                             Record(r, metrics, collaborators.value))
                     /\ metrics' = NoMetrics
                     /\ pc' = IF Len(repo_stats) + 1 = Len(repos)
                              THEN "write" ELSE "commits"
    /\ UnchangedApp
    /\ UNCHANGED <<now, session, frame, repos, files, pagination>>

\* lines 174-186: the JSON file and the CSV file are written
WriteFiles ==
    /\ pc = "write"
    /\ files' = <<repo_stats, repo_stats>>
    /\ pc' = "done"
    /\ UnchangedApp
    /\ UNCHANGED <<now, session, frame, repos, repo_stats, metrics, received, pagination>>

CollectorNext ==
    \/ ListRepos
    \/ EstimateCommitCount
    \/ CountPrsMerged
    \/ CountIssues
    \/ CountCollaborators
    \/ WriteFiles

CollectorSpec == SegmentationInit /\ [][CollectorNext]_vars

\* C14: estimate_commit_count returns the number of items of the first page
\* when the response has no 'link' header or no rel="last" part,
\* (last_page - 1) * per_page plus the number of items of the last page when
\* rel="last" is present, and 0 when the status is 204.
C14_CommitCount ==
    (pc = "prs" /\ received[1].exc = "")
       => LET first == received[1] IN
          IF first.status_code = 204
          THEN metrics.commits_count = 0 /\ Len(received) = 1
          ELSE IF \E i \in 1..Len(first.link) : first.link[i].rel = "last"
          THEN /\ Len(received) = 2
               /\ received[2].exc = ""
                     => \E i \in 1..Len(first.link) :
                           /\ first.link[i].rel = "last"
                           /\ metrics.commits_count
                                 = ((IF first.link[i].page = None THEN 1
                                     ELSE first.link[i].page) - 1)
                                   * (IF first.link[i].per_page = None THEN 30
                                      ELSE first.link[i].per_page)
                                   + received[2].items
          ELSE metrics.commits_count = first.items /\ Len(received) = 1

\* the header names page 3 of pages of one commit as the last: 3 commits
C14_Witness ==
    /\ pc = "prs"
    /\ Len(received) = 2
    /\ received[1].exc = "" /\ received[2].exc = ""
    /\ received[1].link[2] = LinkPart("last", 3, 1)
    /\ received[2].items = 1
    /\ metrics.commits_count = 3

\* the 14 fields of a record
Fields ==
    {"repo_name", "full_name", "visibility", "default_branch", "forks_count",
     "stargazers_count", "watchers_count", "open_issues_count", "pushed_at",
     "commits_count", "prs_merged_count", "issues_open_count", "issues_closed_count",
     "collaborators_count"}

\* C16: every failure of a metric of a repository is caught and recorded as
\* None and the run goes on: once the repositories are listed the script
\* does not end on an exception, and it ends with exactly one 14-field
\* record per listed repository, in the order of the listing.
C16_EveryFailureCaught ==
    /\ pc = "crashed" => Len(repos) = 0
    /\ pc = "done"
          => /\ Len(repo_stats) = Len(repos)
             /\ \A i \in 1..Len(repos) :
                   /\ DOMAIN repo_stats[i] = Fields
                   /\ repo_stats[i].repo_name = repos[i].name

\* ------------------------------------------------------------------------
\* POST /forecast: the division of the MAPE
\* ------------------------------------------------------------------------

\* some actual of the request is zero
SomeActualZero ==
    \E i \in 1..Len(request.body.monthlyData) : request.body.monthlyData[i].revenue = 0

\* C26 as the specification states it: the MAPE of a successful POST
\* /forecast never divides by a zero actual, also when some but not all
\* actuals are zero: the division is evaluated for non-zero actuals only, so
\* the metric is a finite number.
C26_NoDivisionByZero ==
    (Answered("/forecast") /\ response.status = 200
        /\ Len(request.body.monthlyData) >= 3)
       => /\ response.body.metrics.mape.divided => ~SomeActualZero
          /\ response.body.metrics.mape.kind = "number"

\* ------------------------------------------------------------------------
\* POST /segmentation/initialize: a failed initialization
\* ------------------------------------------------------------------------

\* C24 as the specification states it: when initialize_segmentation_models
\* returns False on a pipeline that was already initialized, the scaler and
\* the cluster model are the same fitted objects as before the call, so a
\* later POST /segmentation still classifies with the earlier model.
C24_FailedInitializeKeepsModels ==
    [][(/\ segmentation_initialized
        /\ Answers("/segmentation/initialize")
        /\ calls' = <<"initialize_segmentation_models">>
        /\ response'.status = 500)
          => /\ UNCHANGED <<segmentation_scaler, segmentation_kmeans>>
             /\ segmentation_scaler'.fitted
             /\ segmentation_kmeans'.fitted]_vars

\* ------------------------------------------------------------------------
\* POST /whatsapp/send: the provider calls
\* ------------------------------------------------------------------------

\* phone and message are present and the phone can be normalized
Sendable(recipient) ==
    /\ recipient.phone # <<>>
    /\ recipient.message # ""
    /\ format_phone_number(recipient.phone) # <<>>

\* C21: POST /whatsapp/send processes the recipients in input order and
\* invokes the send operation at most once per recipient: exactly once, with
\* the normalized phone and the message, for a recipient whose phone and
\* message are present and whose phone can be normalized, never for another
\* recipient, and not at all when the request has no recipients or Twilio is
\* not configured.
C21_OneSendPerRecipient ==
    Answered("/whatsapp/send")
       => LET recipients == request.body.recipients
              sendable == SelectSeq(recipients, Sendable)
          IN IF ~request.body.json \/ recipients = <<>> \/ ~environ.TWILIO_ACCOUNT_SID
                \/ ~environ.TWILIO_AUTH_TOKEN \/ ~environ.TWILIO_WHATSAPP_FROM
             THEN calls = <<>> /\ response.status # 200
             ELSE /\ Len(calls) = Len(sendable)
                  /\ \A i \in 1..Len(calls) :
                        /\ calls[i].api = "messages.create"
                        /\ calls[i].to = <<"whatsapp:">>
                                            \o format_phone_number(sendable[i].phone)
                        /\ calls[i].body = sendable[i].message
                  /\ response.status = 200
                  /\ Len(response.body.results) = Len(recipients)
                  /\ \A i \in 1..Len(recipients) :
                        response.body.results[i].phone = recipients[i].phone

\* three recipients: the first and the third have been sent to, in this
\* order, and the second, whose phone cannot be normalized, has not
C21_Witness ==
    /\ Answered("/whatsapp/send")
    /\ response.status = 200
    /\ Len(request.body.recipients) = 3
    /\ request.body.recipients[1].phone = BarePhone
    /\ request.body.recipients[2].phone = BadPhone
    /\ request.body.recipients[3].phone = E164Phone
    /\ Len(calls) = 2
    /\ calls[1].to = <<"whatsapp:">> \o format_phone_number(BarePhone)
    /\ calls[2].to = <<"whatsapp:">> \o E164Phone

\* ------------------------------------------------------------------------
\* sample.py: paginate(session, url, params)
\* ------------------------------------------------------------------------

\* pages of the longest list the server holds
MaxPages == 3

\* the JSON lists of a page
PageItems == {<<>>, <<"a">>, <<"b", "a">>}

\* a response get() returns: the parts of its 'link' header (<<>> without the
\* header), whether it has a body, and the items of the body
PageResponse(link, content, items) ==
    [exc |-> "", link |-> link, content |-> content, items |-> items]

\* the 'link' headers of page p: every rel="next" leads to a later page, so
\* that the chain of next links is finite
LinkHeaders(p) ==
    {<<>>, <<LinkPart("prev", p - 1, 100)>>}
    \cup {<<LinkPart("next", q, 100)>> : q \in (p + 1)..MaxPages}
    \cup {<<LinkPart("prev", p - 1, 100), LinkPart("next", q, 100),
            LinkPart("last", MaxPages, 100)>> : q \in (p + 1)..MaxPages}
    \cup {<<LinkPart("next", q, 100), LinkPart("next", MaxPages, 100)>> :
             q \in (p + 1)..MaxPages}

\* what get() ends with when page p is asked for
PageOutcomes(p) ==
    {[exc |-> e, link |-> <<>>, content |-> FALSE, items |-> <<>>] :
        e \in {"HTTPError", "ConnectionError"}}
    \cup {PageResponse(link, FALSE, <<>>) : link \in LinkHeaders(p)}
    \cup {PageResponse(link, TRUE, items) : link \in LinkHeaders(p), items \in PageItems}

\* lines 58-63: the page the first part with rel="next" leads to
next_link(resp) ==
    resp.link[CHOOSE i \in 1..Len(resp.link) :
                 /\ resp.link[i].rel = "next"
                 /\ \A j \in 1..(i - 1) : resp.link[j].rel # "next"].page

\* items.extend(resp.json()) put in front of the items gathered so far
extend_front(items, resp) == IF resp.content THEN resp.items \o items ELSE items

\* if resp.content: items.extend(resp.json())
extend(items, resp) == IF resp.content THEN items \o resp.items ELSE items

\* lines 53-56, 66-68: get(), which raises or returns the response whose
\* items are gathered
Fetch(page, resp) ==
    LET asked == [pagination EXCEPT !.requested = Append(@, page)]
    IN IF resp.exc # ""
       THEN [asked EXCEPT !.state = "raised", !.exc = resp.exc]
       ELSE [asked EXCEPT !.state = "loop",
                          !.responses = Append(@, resp),
                          !.items = extend(@, resp)]

UnchangedButPagination ==
    UNCHANGED <<segmentation, environ, request, response, calls, threads, now, session,
                frame, pc, repos, repo_stats, metrics, received, files>>

\* lines 53-56: the first page
PaginateFirst ==
    /\ pagination.state = "idle"
    /\ \E resp \in PageOutcomes(1) : pagination' = Fetch(1, resp)
    /\ UnchangedButPagination

\* lines 57-69: one round of the loop, which returns the items when the last
\* response has no 'link' header or no rel="next" part
PaginateLoop ==
    /\ pagination.state = "loop"
    /\ LET resp == pagination.responses[Len(pagination.responses)]
       IN IF ~HasNextLink(resp)
          THEN pagination' = [pagination EXCEPT !.state = "returned"]
          ELSE \E next \in PageOutcomes(next_link(resp)) :
                  pagination' = Fetch(next_link(resp), next)
    /\ UnchangedButPagination

PaginateNext ==
    \/ PaginateFirst
    \/ PaginateLoop

\* the script is sequential: a statement that can run does run
PaginateSpec == SegmentationInit /\ [][PaginateNext]_vars /\ WF_vars(PaginateNext)

\* the items of the pages in page order
Concatenation(pages) ==
    LET upto[n \in 0..Len(pages)] ==
            IF n = 0 THEN <<>> ELSE upto[n - 1] \o pages[n].items
    IN upto[Len(pages)]

\* what paginate returns is the items of the pages it got, in the order it
\* got them; the pages are the first one and those the rel="next" links lead
\* to, each asked for once; the last has no rel="next"
PagesConcatenated ==
    pagination.state = "returned"
       => LET got == pagination.responses
              asked == pagination.requested
          IN /\ pagination.items = Concatenation(got)
             /\ Len(asked) = Len(got)
             /\ asked[1] = 1
             /\ \A i \in 1..(Len(got) - 1) :
                   /\ \E j \in 1..Len(got[i].link) : got[i].link[j].rel = "next"
                   /\ \E j \in 1..Len(got[i].link) :
                         /\ got[i].link[j].rel = "next"
                         /\ got[i].link[j].page = asked[i + 1]
                         /\ \A k \in 1..(j - 1) : got[i].link[k].rel # "next"
             /\ \A j \in 1..Len(got[Len(got)].link) : got[Len(got)].link[j].rel # "next"
             /\ \A i, j \in 1..Len(asked) : i # j => asked[i] # asked[j]

Capped(n) == IF n > MaxClock THEN MaxClock ELSE n

Requested ==
    IF Len(session) < MaxAttempts
    THEN Append(session, [url |-> frame.url, params |-> frame.params])
    ELSE session

UnchangedButGet ==
    UNCHANGED <<segmentation, environ, request, response, calls, pc, repos,
                repo_stats, metrics, received, files, pagination, threads>>

\* lines 40-48: the response is a 202 or a rate-limited 403; get() sleeps
\* and goes round again
Continue(resp) ==
    /\ Retried(resp)
    /\ session' = Requested
    /\ frame' = [frame EXCEPT !.status_code = resp.status_code,
                              !.remaining = resp.remaining,
                              !.reset = resp.reset,
                              !.slept = Capped(@ + (IF resp.status_code = 202 THEN 1
                                                    ELSE RateLimitWait(resp, now)))]
    /\ now' = Capped(now + (IF resp.status_code = 202 THEN 1
                            ELSE RateLimitWait(resp, now)))

\* a get() that gives up after MaxAttempts requests
GetAgainCapped ==
    /\ frame.state = "running"
    /\ Len(session) < MaxAttempts
    /\ \E resp \in SessionOutcomes(now) : Continue(resp)
    /\ UnchangedButGet

\* one round of the loop of get() that ends with continue
GetAgain ==
    /\ frame.state = "running"
    /\ \E resp \in SessionOutcomes(now) : Continue(resp)
    /\ UnchangedButGet

\* lines 39, 49-50: session.get raises, or the response is neither a 202 nor
\* a rate-limited 403: raise_for_status raises or get() returns
GetAnswer ==
    /\ frame.state = "running"
    /\ \E resp \in SessionOutcomes(now) :
          /\ ~Retried(resp)
          /\ session' = Requested
          /\ frame' = [frame EXCEPT
                          !.status_code = resp.status_code,
                          !.remaining = resp.remaining,
                          !.reset = resp.reset,
                          !.exc = IF resp.exc # "" THEN resp.exc
                                  ELSE IF resp.status_code >= 400 THEN "HTTPError"
                                  ELSE "",
                          !.state = IF resp.exc # "" \/ resp.status_code >= 400
                                    THEN "raised" ELSE "returned"]
    /\ now' = now
    /\ UnchangedButGet

GetLiveNext ==
    \/ CallGet
    \/ GetAgain
    \/ GetAnswer
    \/ GetReturn

\* The provider eventually answers a request of a running get() with a
\* status that is neither 202 nor a rate-limited 403, or the request fails
GetLiveSpec == SegmentationInit /\ [][GetLiveNext]_vars /\ WF_vars(GetAnswer)

\* C23: when the provider eventually answers with a status that is neither
\* 202 nor a rate-limited 403, a running get() eventually returns or raises;
\* and whatever the number of requests made so far, get() can be answered
\* with a 202 or a rate-limited 403 and go round again: nothing bounds the
\* rounds.
C23_GetEndsIfAnswered ==
    /\ (frame.state = "running") ~> (frame.state \in {"returned", "raised"})
    /\ [](frame.state = "running" => ENABLED GetAgain)

\* get() has returned after MaxAttempts requests or more, the earlier ones
\* answered with a 202 or a rate-limited 403
C23_Witness ==
    /\ frame.state = "returned"
    /\ Len(session) = MaxAttempts
    /\ frame.slept >= MaxAttempts - 1

\* ------------------------------------------------------------------------
\* Concurrent segmentation requests (app.run serves each request in a thread
\* of its own; the three globals are read and written without a lock)
\* ------------------------------------------------------------------------

\* requests handled at the same time
MaxThreads == 2

\* the uploads of the concurrent requests
ConcurrentUploads ==
    {up \in Uploads : up.part = "missing" \/ (up.part = "file" /\ up.df.columns = AllColumns)}

\* a worker thread that has just been given a request
Thread(endpoint, up) ==
    [endpoint |-> endpoint, up |-> up, at |-> "start", call |-> 0,
     scaler |-> NoObject, kmeans |-> NoObject, fitted |-> FALSE, status |-> 0]

\* StandardScaler() and KMeans(...): the new object of call number call
Unfitted(call) == [obj |-> call, fitted |-> FALSE, scaler |-> 0, fit_on |-> <<>>]

\* the object after a fit, with the call that fitted it
FittedBy(object, call) ==
    [obj |-> object.obj, fitted |-> object.fitted, scaler |-> object.scaler,
     fit_on |-> object.fit_on, by |-> call]

\* the thread answers with status
Done(th, status) == [th EXCEPT !.at = "done", !.status = status]

UnchangedButThreads(unchanged) ==
    /\ UNCHANGED <<environ, collector, request, response, calls>>
    /\ UNCHANGED unchanged

\* a request arrives and a thread starts on it
AcceptRequest ==
    /\ Len(threads) < MaxThreads
    /\ \E e \in {"/segmentation", "/segmentation/initialize"}, up \in ConcurrentUploads :
          threads' = Append(threads, Thread(e, up))
    /\ UnchangedButThreads(segmentation)

\* lines 531-546 and 590-604: the upload is read; /segmentation tests the
\* flag; initialize_segmentation_models prepares its training data
ReadUpload ==
    \E t \in 1..Len(threads) :
       LET th == threads[t] IN
       /\ th.at = "start"
       /\ IF th.up.part # "file"
          THEN /\ threads' = [threads EXCEPT ![t] = Done(th, 400)]
               /\ fits' = fits
          ELSE IF th.endpoint = "/segmentation" /\ segmentation_initialized
          THEN /\ threads' = [threads EXCEPT ![t] = [th EXCEPT !.at = "transform"]]
               /\ fits' = fits
          ELSE /\ fits < MaxFits
               /\ threads' = [threads EXCEPT ![t] = [th EXCEPT !.at = "new_scaler",
                                                               !.call = fits + 1]]
               /\ fits' = fits + 1
       /\ UnchangedButThreads(<<segmentation_scaler, segmentation_kmeans,
                                segmentation_initialized>>)

\* line 441: segmentation_scaler = StandardScaler()
NewScaler ==
    \E t \in 1..Len(threads) :
       LET th == threads[t] IN
       /\ th.at = "new_scaler"
       /\ segmentation_scaler' = Unfitted(th.call)
       /\ threads' = [threads EXCEPT ![t] = [th EXCEPT !.at = "fit_scaler"]]
       /\ UnchangedButThreads(<<segmentation_kmeans, segmentation_initialized, fits>>)

\* line 442: segmentation_scaler.fit(df_for_training), on the object the
\* global names at this moment; fit raises on an empty array
FitScaler ==
    \E t \in 1..Len(threads) :
       LET th == threads[t]
           rows == FeatureRows(th.up.df)
       IN /\ th.at = "fit_scaler"
          /\ IF Len(rows) = 0
             THEN /\ threads' = [threads EXCEPT ![t] = Done(th, 500)]
                  /\ UNCHANGED segmentation_scaler
             ELSE /\ segmentation_scaler' =
                        FittedBy(StandardScaler_fit(segmentation_scaler.obj, rows), th.call)
                  /\ threads' = [threads EXCEPT ![t] = [th EXCEPT !.at = "new_kmeans"]]
          /\ UnchangedButThreads(<<segmentation_kmeans, segmentation_initialized, fits>>)

\* line 445: segmentation_kmeans = KMeans(n_clusters=4, ...)
NewKMeans ==
    \E t \in 1..Len(threads) :
       LET th == threads[t] IN
       /\ th.at = "new_kmeans"
       /\ segmentation_kmeans' = Unfitted(th.call)
       /\ threads' = [threads EXCEPT ![t] = [th EXCEPT !.at = "fit_kmeans"]]
       /\ UnchangedButThreads(<<segmentation_scaler, segmentation_initialized, fits>>)

\* line 446: segmentation_kmeans.fit(segmentation_scaler.transform(..)), on
\* the objects the globals name at this moment; transform raises on an
\* unfitted scaler, fit on NaN and on fewer samples than clusters
FitKMeans ==
    \E t \in 1..Len(threads) :
       LET th == threads[t]
           rows == FeatureRows(th.up.df)
       IN /\ th.at = "fit_kmeans"
          /\ IF segmentation_scaler.fitted
                /\ KMeans_fit(segmentation_kmeans.obj, segmentation_scaler, rows).fitted
             THEN /\ segmentation_kmeans' =
                        FittedBy(KMeans_fit(segmentation_kmeans.obj, segmentation_scaler,
                                            rows), th.call)
                  /\ threads' = [threads EXCEPT ![t] = [th EXCEPT !.at = "flag",
                                                                  !.fitted = TRUE]]
             ELSE /\ threads' = [threads EXCEPT ![t] = Done(th, 500)]
                  /\ UNCHANGED segmentation_kmeans
          /\ UnchangedButThreads(<<segmentation_scaler, segmentation_initialized, fits>>)

\* line 448: segmentation_initialized = True; /segmentation/initialize
\* answers, /segmentation goes on to classify
SetInitialized ==
    \E t \in 1..Len(threads) :
       LET th == threads[t] IN
       /\ th.at = "flag"
       /\ segmentation_initialized' = TRUE
       /\ threads' = [threads EXCEPT ![t] =
                         IF th.endpoint = "/segmentation" THEN [th EXCEPT !.at = "transform"]
                         ELSE Done(th, 200)]
       /\ UnchangedButThreads(<<segmentation_scaler, segmentation_kmeans, fits>>)

\* line 486 (prepare_customer_data): segmentation_scaler.transform(..)
Transform ==
    \E t \in 1..Len(threads) :
       LET th == threads[t]
           rows == FeatureRows(th.up.df)
       IN /\ th.at = "transform"
          /\ threads' = [threads EXCEPT ![t] =
                            IF ~segmentation_scaler.fitted \/ Len(rows) = 0
                            THEN Done(th, 500)
                            ELSE [th EXCEPT !.at = "predict",
                                            !.scaler = segmentation_scaler]]
          /\ UnchangedButThreads(segmentation)

\* lines 558-564: the fuzzy loop, then segmentation_kmeans.predict(..)
Predict ==
    \E t \in 1..Len(threads) :
       LET th == threads[t]
           rows == FeatureRows(th.up.df)
       IN /\ th.at = "predict"
          /\ threads' = [threads EXCEPT ![t] =
                            IF ~segmentation_kmeans.fitted \/ HasNaN(rows)
                            THEN Done(th, 500)
                            ELSE [Done(th, 200) EXCEPT !.kmeans = segmentation_kmeans]]
          /\ UnchangedButThreads(segmentation)

\* the response is sent and the thread ends
Reply ==
    \E t \in 1..Len(threads) :
       /\ threads[t].at = "done"
       /\ threads' = [i \in 1..(Len(threads) - 1) |->
                         IF i < t THEN threads[i] ELSE threads[i + 1]]
       /\ UnchangedButThreads(segmentation)

ConcurrentNext ==
    \/ AcceptRequest
    \/ ReadUpload
    \/ NewScaler
    \/ FitScaler
    \/ NewKMeans
    \/ FitKMeans
    \/ SetInitialized
    \/ Transform
    \/ Predict
    \/ Reply

ConcurrentSpec == SegmentationInit /\ [][ConcurrentNext]_vars

\* C25 as the specification states it: under every interleaving a classify
\* request that succeeds has scaled with a scaler and predicted with a
\* k-means model fitted by the same call of initialize_segmentation_models,
\* and of the /segmentation requests in progress at most one has fitted the
\* models.
C25_SameInitializeUnderInterleaving ==
    /\ \A t \in 1..Len(threads) :
          (threads[t].endpoint = "/segmentation" /\ threads[t].status = 200)
             => /\ threads[t].scaler.by = threads[t].kmeans.by
                /\ threads[t].kmeans.scaler = threads[t].scaler.obj
    /\ \A t, u \in 1..Len(threads) :
          (/\ threads[t].endpoint = "/segmentation"
           /\ threads[u].endpoint = "/segmentation"
           /\ threads[t].fitted
           /\ threads[u].fitted)
             => t = u

====
